---- MODULE Spec2Model ----
(***************************************************************************)
(* Orchestration state machine of the multi-agent graph                   *)
(* (code_agent/agent/graph.py): the Supervisor node, the three worker     *)
(* nodes and the TUI loop that feeds user messages into the graph.         *)
(*                                                                         *)
(* The graph state (AgentState) is checkpointed per thread_id, and the     *)
(* TUI uses one thread_id for its whole life, so every channel keeps its   *)
(* value from one user message to the next.                                *)
(***************************************************************************)
EXTENDS Integers, Sequences, FiniteSets, TLC

\* ------------------------------------------------------------------------
\* Constants of the program and bounds of the model
\* ------------------------------------------------------------------------

\* state.get("max_iterations", 15): no code ever writes the channel.
MaxIterations == 15

\* Number of user messages one conversation of the model may hold.
MaxUserMsgs == 3

\* Plan payloads a planner may submit; None is the absent plan.
None == "None"
Plans == {"planA", "planB"}

\* Issue lists a reviewer verdict may carry.
IssueLists == {<<>>, <<"a.py:10">>, <<"b.py:3">>}

\* The issue the runtime records when the reviewer ran no verification tool.
SkippedVerificationIssue == "Reviewer skipped verification tools"

Workers == {"Planner", "Coder", "Reviewer"}

VARIABLES
    messages,         \* AgentState.messages: the types of the messages, oldest
                      \* first; a run of consecutive non-human messages is kept
                      \* as one "ai" entry
    phase,            \* AgentState.phase
    plan,             \* AgentState.plan
    iteration_count,  \* AgentState.iteration_count
    review_status,    \* AgentState.review_status
    issues_found,     \* AgentState.issues_found
    next,             \* AgentState.next
    pc,               \* the node the graph runs next; "idle" while the TUI
                      \* waits for the user
    seen,             \* what supervisor_node read at its latest decision
                      \* (the values of its "Supervisor: phase=..." log line)
    review_result,    \* the verdict the latest reviewer run parsed
    planner_submission,
                      \* the plan the latest planner run of this user turn
                      \* submitted, None when it submitted none
    pending_streak,   \* consecutive reviewer runs that ended with status pending
    turns,            \* supervisor decisions since the latest user message
    match,            \* one PatternManager.is_allowed call: its inputs and result
    patterns,         \* pattern_manager.patterns: the allow, deny and ask lists
    pattern_files,    \* per workspace, the text of its allowed_patterns.json
    workspace,        \* settings.workspace_root of the running process
    saved,            \* per workspace, the lists the latest _save_patterns wrote
    bus,              \* the tool events published so far, oldest first
    call,             \* the tool call inside the permission gate
    loop,             \* the worker's tool loop (agent_graph.invoke)
    uuids,            \* how many call ids uuid4 has handed out
    tool_exec,        \* one BaseTool.execute call and its executor thread
    review,           \* one Reviewer run of worker_node: the messages it was
                      \* given, the messages of the run, what it returned
    ptable,           \* the operating system's process table, by pid
    processes,        \* _process_registry._processes: the tracked pids
    reg_op,           \* the registry's latest call and the shutdown hook
    path_call,        \* one resolve_workspace_path call: its input and outcome
    event_queue,      \* _EVENT_QUEUE: the events queued, oldest first
    event_log,        \* the lines of the day's tool_events JSONL file
    publishers,       \* per publishing thread, where it is in publish_tool_event
    drainers,         \* per draining thread, its drain_tool_events call
    adders,           \* per thread, where it is in PatternManager.add_pattern
    role_tools,       \* the tool registry and the tool lists of the three roles
    save_op,          \* one _save_patterns call and the process around it
    trim_call,        \* one trim_messages call: its input and what it returned
    shell_run,        \* one ShellTool._run_with_streaming call
    observer          \* the TUI's two draining threads and what they processed

\* The orchestration state.
orch_vars == <<messages, phase, plan, iteration_count, review_status,
               issues_found, next, pc, seen, review_result,
               planner_submission,
               pending_streak,
               turns>>

\* The PatternManager and its files.
pm_vars == <<patterns, pattern_files, workspace, saved>>

\* The permission gate, the event bus and the tool loop around it.
gate_vars == <<bus, call, loop, uuids>>

\* The parts of the program modelled one operation at a time.
proc_vars == <<ptable, processes, reg_op>>
queue_vars == <<event_queue, event_log, publishers, drainers>>
call_vars == <<save_op, trim_call, shell_run, observer>>
unit_vars == <<review, proc_vars, path_call, queue_vars, adders, role_tools,
               call_vars>>

\* Everything but the orchestration state.
outside_orch == <<match, pm_vars, gate_vars, tool_exec, unit_vars>>

\* Everything but the is_allowed call.
outside_match == <<orch_vars, pm_vars, gate_vars, tool_exec, unit_vars>>

\* Everything but the PatternManager.
outside_pm == <<orch_vars, match, gate_vars, tool_exec, unit_vars>>

\* Everything but the permission gate and the PatternManager it uses.
outside_gate == <<orch_vars, match, tool_exec, unit_vars>>

\* Everything but the execute call.
outside_exec == <<orch_vars, match, pm_vars, gate_vars, unit_vars>>

\* Everything but the Reviewer run.
outside_review == <<orch_vars, match, pm_vars, gate_vars, tool_exec, proc_vars,
                    path_call, queue_vars,
                    adders, role_tools,
                   call_vars>>

\* Everything but the process registry and the processes.
outside_proc == <<orch_vars, match, pm_vars, gate_vars, tool_exec, review,
                  path_call, queue_vars,
                    adders, role_tools,
                   call_vars>>

\* Everything but the resolve_workspace_path call.
outside_path == <<orch_vars, match, pm_vars, gate_vars, tool_exec, review,
                  proc_vars, queue_vars, adders, role_tools,
                   call_vars>>

\* Everything but the event queue and its threads.
outside_queue == <<orch_vars, match, pm_vars, gate_vars, tool_exec, review,
                   proc_vars, path_call, adders, role_tools,
                   call_vars>>

\* Everything but the PatternManager and the threads that call add_pattern.
outside_adders == <<orch_vars, match, gate_vars, tool_exec, review, proc_vars,
                    path_call, queue_vars, role_tools,
                   call_vars>>

\* Everything but the tool registry and the tool lists.
outside_roles == <<orch_vars, match, pm_vars, gate_vars, tool_exec, review,
                   proc_vars, path_call, queue_vars, adders,
                   call_vars>>

\* Everything but the _save_patterns call and the PatternManager.
outside_save == <<orch_vars, match, gate_vars, tool_exec, review, proc_vars,
                  path_call, queue_vars, adders, role_tools, trim_call,
                  shell_run, observer>>

\* Everything but the trim_messages call.
outside_trim == <<orch_vars, match, pm_vars, gate_vars, tool_exec, review,
                  proc_vars, path_call, queue_vars, adders, role_tools,
                  save_op, shell_run, observer>>

\* Everything but the _run_with_streaming call.
outside_shell == <<orch_vars, match, pm_vars, gate_vars, tool_exec, review,
                   proc_vars, path_call, queue_vars, adders, role_tools,
                   save_op, trim_call, observer>>

\* Everything but the TUI's event threads.
outside_observer == <<orch_vars, match, pm_vars, gate_vars, tool_exec, review,
                      proc_vars, path_call, queue_vars, adders, role_tools,
                      save_op, trim_call, shell_run>>

vars == <<orch_vars, match, pm_vars, gate_vars, tool_exec, unit_vars>>

\* No is_allowed call is under way.
MatchIdle == match = [pc |-> "none"]

\* The workspaces a process can be started in.
Workspaces == {"ws1", "ws2"}

\* PatternManager.__init__ before _load_patterns: three empty lists.
EmptyPatterns == [allow |-> <<>>, deny |-> <<>>, ask |-> <<>>]

\* No allowed_patterns.json at the path.
Missing == <<>>

\* The file after open("w") and before the first write reaches it: it is
\* there and holds no document.
EmptyFile == <<[t |-> "", v |-> <<>>]>>

\* _save_patterns has not written the workspace's file.
NotSaved == [written |-> FALSE]

\* No PatternManager in use.
PatternIdle ==
    /\ patterns = EmptyPatterns
    /\ pattern_files = [w \in Workspaces |-> Missing]
    /\ workspace = "ws1"
    /\ saved = [w \in Workspaces |-> NotSaved]

\* No tool call and no tool loop.
NoCall == [pc |-> "none"]
NoLoop ==
    [status |-> "none", worker |-> "", calls |-> 0, called_plan |-> None,
     ret |-> [messages |-> <<>>, patch |-> <<>>]]

GateIdle ==
    /\ bus = <<>>
    /\ call = NoCall
    /\ loop = NoLoop
    /\ uuids = 0

\* No execute call.
ExecIdle == tool_exec = [pc |-> "none"]

\* No Reviewer run is under way.
ReviewIdle == review = [pc |-> "none"]

\* None of the operations modelled one at a time is under way.
\* No background command was launched.
ProcIdle ==
    /\ ptable = <<>>
    /\ processes = {}
    /\ reg_op = [pc |-> "none"]

\* No resolve_workspace_path call is under way.
PathIdle == path_call = [pc |-> "none"]

\* No thread publishes or drains.
QueueIdle ==
    /\ event_queue = <<>>
    /\ event_log = <<>>
    /\ publishers = <<>>
    /\ drainers = <<>>

\* No thread is in add_pattern.
AddersIdle == adders = <<>>

\* The tool lists are not looked at.
RolesIdle == role_tools = <<>>

\* No _save_patterns call is followed.
SaveIdle == save_op = [pc |-> "none"]

\* No trim_messages call.
TrimIdle == trim_call = [pc |-> "none"]

\* No blocking shell command.
ShellIdle == shell_run = [pc |-> "none"]

\* The TUI's event threads are not followed.
ObserverIdle == observer = [pc |-> "none"]

CallsIdle == SaveIdle /\ TrimIdle /\ ShellIdle /\ ObserverIdle

UnitsIdle ==
    /\ ReviewIdle /\ ProcIdle /\ PathIdle /\ QueueIdle /\ AddersIdle /\ RolesIdle
    /\ CallsIdle

\* ------------------------------------------------------------------------
\* supervisor_node
\* ------------------------------------------------------------------------

is_last_message_from_user(msgs) ==
    IF Len(msgs) = 0 THEN FALSE ELSE msgs[Len(msgs)] = "human"

count_user_messages(msgs) ==
    Cardinality({i \in 1..Len(msgs) : msgs[i] = "human"})

\* supervisor_node returns a state patch: a function from the keys it sets to
\* their values.  Keys that are absent keep the channel's value.

\* Faulty variant of cap_reached: the cap compared with > instead of >=.
cap_reached_off_by_one(s) == s.iteration_count > MaxIterations

\* Rule 1, the safety stop: iteration_count >= max_iterations.
cap_reached(s) == s.iteration_count >= MaxIterations

\* Faulty variant of user_message_patch: every user message resets the plan too.
user_message_patch_full_reset(s) ==
    [next |-> "Planner", phase |-> "planning", plan |-> None,
     iteration_count |-> 0, review_status |-> "pending", issues_found |-> <<>>]

\* Rule 2, a new user message: full reset on the first one, the plan kept on a
\* follow-up.
user_message_patch(s) ==
    IF count_user_messages(s.messages) = 1
    THEN [next |-> "Planner", phase |-> "planning", plan |-> None,
          iteration_count |-> 0, review_status |-> "pending",
          issues_found |-> <<>>]
    ELSE [next |-> "Planner", phase |-> "planning",
          iteration_count |-> 0, review_status |-> "pending",
          issues_found |-> <<>>]

\* Faulty variant of planning_patch: the coder is routed to without the phase change.
planning_patch_keeps_phase(s) ==
    IF s.plan # None
    THEN [next |-> "Coder"]
    ELSE [next |-> "FINISH", phase |-> "done"]

\* Faulty variant of planning_patch: the coder is routed to without a plan.
planning_patch_ignores_plan(s) == [next |-> "Coder", phase |-> "coding"]

\* Rule 3, phase planning.
planning_patch(s) ==
    IF s.plan # None
    THEN [next |-> "Coder", phase |-> "coding"]
    ELSE [next |-> "FINISH", phase |-> "done"]

\* Faulty variant of coding_patch: review_status is not reset.
coding_patch_keeps_status(s) == [next |-> "Reviewer", phase |-> "reviewing"]

\* Rule 4, phase coding.
coding_patch(s) ==
    [next |-> "Reviewer", phase |-> "reviewing", review_status |-> "pending"]

\* Faulty variant of reviewing_patch: a passed review also clears iteration_count.
reviewing_patch_clears_count(s) ==
    IF s.review_status = "needs_fixes"
    THEN [next |-> "Coder", phase |-> "coding",
          iteration_count |-> s.iteration_count + 1]
    ELSE IF s.review_status = "passed"
    THEN [next |-> "FINISH", phase |-> "done", iteration_count |-> 0]
    ELSE IF s.iteration_count > 0
    THEN [next |-> "FINISH", phase |-> "done"]
    ELSE [next |-> "Reviewer", phase |-> "reviewing",
          iteration_count |-> s.iteration_count + 1]

\* Rule 5, phase reviewing: the feedback loop, and the retry of a reviewer
\* whose verdict is still pending.
reviewing_patch(s) ==
    IF s.review_status = "needs_fixes"
    THEN [next |-> "Coder", phase |-> "coding",
          iteration_count |-> s.iteration_count + 1]
    ELSE IF s.review_status = "passed"
    THEN [next |-> "FINISH", phase |-> "done"]
    ELSE IF s.iteration_count > 0
    THEN [next |-> "FINISH", phase |-> "done"]
    ELSE [next |-> "Reviewer", phase |-> "reviewing",
          iteration_count |-> s.iteration_count + 1]

\* Faulty variant of supervisor_node: the user message is looked at before the cap.
supervisor_node_user_first(s) ==
    IF is_last_message_from_user(s.messages) THEN user_message_patch(s)
    ELSE IF cap_reached(s) THEN [next |-> "FINISH", phase |-> "done"]
    ELSE IF s.phase = "planning" THEN planning_patch(s)
    ELSE IF s.phase = "coding" THEN coding_patch(s)
    ELSE IF s.phase = "reviewing" THEN reviewing_patch(s)
    ELSE IF s.phase = "done" THEN [next |-> "FINISH"]
    ELSE [next |-> "Planner", phase |-> "planning"]

\* The rules in the order the code evaluates them.
supervisor_node(s) ==
    IF cap_reached(s) THEN [next |-> "FINISH", phase |-> "done"]
    ELSE IF is_last_message_from_user(s.messages) THEN user_message_patch(s)
    ELSE IF s.phase = "planning" THEN planning_patch(s)
    ELSE IF s.phase = "coding" THEN coding_patch(s)
    ELSE IF s.phase = "reviewing" THEN reviewing_patch(s)
    ELSE IF s.phase = "done" THEN [next |-> "FINISH"]
    ELSE [next |-> "Planner", phase |-> "planning"]

\* A channel after a patch: the patch's value when the patch has the key.
Patched(patch, key, old) == IF key \in DOMAIN patch THEN patch[key] ELSE old

\* The channels supervisor_node reads.
AgentState ==
    [messages |-> messages, phase |-> phase, plan |-> plan,
     iteration_count |-> iteration_count, review_status |-> review_status]

\* What the supervisor saw when it decided.
View(s) ==
    [phase |-> s.phase, plan |-> s.plan, iteration_count |-> s.iteration_count,
     review_status |-> s.review_status,
     user |-> is_last_message_from_user(s.messages),
     user_msg_count |-> count_user_messages(s.messages)]

NoView ==
    [phase |-> "none", plan |-> None, iteration_count |-> 0,
     review_status |-> "pending", user |-> FALSE, user_msg_count |-> 0]

\* add_messages with the messages a worker returns: they end with the worker's
\* own (non-human) messages.
AppendWorkerMessages(msgs) ==
    IF Len(msgs) > 0 /\ msgs[Len(msgs)] = "ai" THEN msgs ELSE Append(msgs, "ai")

\* ------------------------------------------------------------------------
\* worker_node: the state patch a worker returns (besides its messages)
\* ------------------------------------------------------------------------

\* Planner: a plan submitted through submit_plan (PlanSubmittedException, or
\* the plan read back from the submit_plan tool call) becomes the plan channel;
\* a run without a usable submission returns messages only.
planner_patch(submitted) ==
    IF submitted # None THEN [plan |-> submitted] ELSE <<>>

\* Coder: messages only.
coder_patch == <<>>

\* Reviewer: tools_used says whether the returned messages hold a call of
\* shell, read_file or list_files; status and issues are what the verdict
\* parsers extracted (status "pending": no parser found a verdict).
reviewer_patch(tools_used, status, issues) ==
    IF ~tools_used
    THEN [review_status |-> "pending",
          issues_found |-> <<SkippedVerificationIssue>>]
    ELSE IF issues # <<>>
    THEN [review_status |-> status, issues_found |-> issues]
    ELSE [review_status |-> status]

\* The verdicts the parsers can produce.
Verdicts ==
    {[status |-> st, issues |-> is] : st \in {"passed", "needs_fixes"},
                                      is \in IssueLists}
        \cup {[status |-> "pending", issues |-> <<>>]}

\* ------------------------------------------------------------------------
\* Initial state: a fresh thread.  Channels never written read as the
\* defaults of supervisor_node's state.get calls.
\* ------------------------------------------------------------------------
\* AgentState and the graph's bookkeeping as constructed.
OrchIdle ==
    /\ messages = <<>>
    /\ phase = "planning"
    /\ plan = None
    /\ iteration_count = 0
    /\ review_status = "pending"
    /\ issues_found = <<>>
    /\ next = "none"
    /\ pc = "idle"
    /\ seen = NoView
    /\ review_result = [status |-> "pending", issues |-> <<>>]
    /\ planner_submission = None
    /\ pending_streak = 0
    /\ turns = 0

Init ==
    /\ OrchIdle
    /\ MatchIdle
    /\ PatternIdle
    /\ GateIdle
    /\ ExecIdle
    /\ UnitsIdle

\* ------------------------------------------------------------------------
\* Actions
\* ------------------------------------------------------------------------

\* TUIApp._handle_user_input: the graph is streamed with one new HumanMessage;
\* the run starts at START -> Supervisor on the thread's checkpointed state.
UserInput ==
    /\ pc = "idle"
    /\ count_user_messages(messages) < MaxUserMsgs
    /\ messages' = Append(messages, "human")
    /\ pc' = "Supervisor"
    /\ turns' = 0
    /\ pending_streak' = 0
    /\ planner_submission' = None
    /\ UNCHANGED <<phase, plan, iteration_count, review_status, issues_found,
                   next, seen, review_result>>
    /\ UNCHANGED outside_orch

\* The Supervisor node runs and the conditional edge follows state["next"].
Supervisor ==
    /\ pc = "Supervisor"
    /\ LET patch == supervisor_node(AgentState) IN
        /\ next' = patch.next
        /\ phase' = Patched(patch, "phase", phase)
        /\ plan' = Patched(patch, "plan", plan)
        /\ iteration_count' = Patched(patch, "iteration_count", iteration_count)
        /\ review_status' = Patched(patch, "review_status", review_status)
        /\ issues_found' = Patched(patch, "issues_found", issues_found)
        /\ pc' = IF patch.next = "FINISH" THEN "idle" ELSE patch.next
    /\ seen' = View(AgentState)
    /\ turns' = turns + 1
    /\ UNCHANGED <<messages, review_result, planner_submission,
                   pending_streak>>
    /\ UNCHANGED outside_orch

\* Planner node returns; edge Planner -> Supervisor.
PlannerReturns ==
    /\ pc = "Planner"
    /\ \E sub \in Plans \cup {None} :
        /\ plan' = Patched(planner_patch(sub), "plan", plan)
        /\ planner_submission' = sub
    /\ messages' = AppendWorkerMessages(messages)
    /\ pc' = "Supervisor"
    /\ UNCHANGED <<phase, iteration_count, review_status, issues_found, next,
                   seen, review_result, pending_streak, turns>>
    /\ UNCHANGED outside_orch

\* Coder node returns; edge Coder -> Supervisor.
CoderReturns ==
    /\ pc = "Coder"
    /\ messages' = AppendWorkerMessages(messages)
    /\ pc' = "Supervisor"
    /\ UNCHANGED <<phase, plan, iteration_count, review_status, issues_found,
                   next, seen, review_result, planner_submission,
                   pending_streak, turns>>
    /\ UNCHANGED outside_orch

\* Reviewer node returns; edge Reviewer -> Supervisor.
ReviewerReturns ==
    /\ pc = "Reviewer"
    /\ \E tools_used \in BOOLEAN, v \in Verdicts :
        LET patch == reviewer_patch(tools_used, v.status, v.issues) IN
        /\ review_status' = Patched(patch, "review_status", review_status)
        /\ issues_found' = Patched(patch, "issues_found", issues_found)
        /\ review_result' = v
        /\ pending_streak' =
              IF patch.review_status = "pending" THEN pending_streak + 1 ELSE 0
    /\ messages' = AppendWorkerMessages(messages)
    /\ pc' = "Supervisor"
    /\ UNCHANGED <<phase, plan, iteration_count, next, seen,
                   planner_submission, turns>>
    /\ UNCHANGED outside_orch

\* A worker's agent run raises (model call failure, ...): the graph run ends
\* with the exception, the checkpoint keeps the state the Supervisor left, and
\* TUIApp.run prints the error and prompts the user again.
WorkerRaises ==
    /\ pc \in Workers
    /\ pc' = "idle"
    /\ UNCHANGED <<messages, phase, plan, iteration_count, review_status,
                   issues_found, next, seen, review_result,
                   planner_submission,
                   pending_streak, turns>>
    /\ UNCHANGED outside_orch

Next ==
    \/ UserInput
    \/ Supervisor
    \/ PlannerReturns
    \/ CoderReturns
    \/ ReviewerReturns
    \/ WorkerRaises

Spec == Init /\ [][Next]_vars

\* The run the termination claim is about: every worker returns.
NextReturning ==
    \/ UserInput
    \/ Supervisor
    \/ PlannerReturns
    \/ CoderReturns
    \/ ReviewerReturns

\* The graph runs every scheduled node to completion; nothing obliges the user
\* to send another message.
LiveSpec ==
    /\ Init
    /\ [][NextReturning]_vars
    /\ WF_vars(Supervisor)
    /\ WF_vars(PlannerReturns)
    /\ WF_vars(CoderReturns)
    /\ WF_vars(ReviewerReturns)

\* ------------------------------------------------------------------------
\* Properties
\* ------------------------------------------------------------------------

\* The state is the one the supervisor's latest decision left: no worker has
\* returned and no user message has arrived since.
Decided == pc # "Supervisor" /\ seen.phase # "none"

\* The supervisor reached its phase rules: neither the cap nor a new user
\* message decided.
PhaseRuleDecided ==
    Decided /\ ~seen.user /\ seen.iteration_count < MaxIterations

TurnBound == 2 * MaxIterations + 3

C3_Original == plan # None => phase \in {"coding", "reviewing", "done"}

\* C3 amended: plan # None implies phase is coding, reviewing or done in every
\* state whose latest routing is not to the Planner; planning with a plan occurs
\* only between a routing to the Planner and the supervisor's next decision.
C3_PlanPhaseConsistent ==
    (plan # None /\ next # "Planner")
        => phase \in {"coding", "reviewing", "done"}

\* C3 witness: the supervisor has taken a submitted plan out of planning.
C3_Witness ==
    /\ Decided
    /\ seen.phase = "planning"
    /\ seen.plan # None
    /\ plan # None
    /\ phase = "coding"

\* C4: iteration_count decreases in no step but the supervisor's handling of a
\* fresh user message, which sets it to 0.
C4_IterationMonotone ==
    [][iteration_count' < iteration_count
         => /\ pc = "Supervisor"
            /\ is_last_message_from_user(messages)
            /\ iteration_count' = 0]_vars

\* C4 witness: a follow-up message reset a count the feedback loop had raised.
C4_Witness ==
    /\ Decided
    /\ seen.user
    /\ seen.iteration_count > 0
    /\ iteration_count = 0

\* C5 as stated: from a done state a fresh user message is routed to the
\* planner with phase planning and iteration_count 0.
C5_RestartFromDone ==
    (Decided /\ seen.user /\ seen.phase = "done")
        => (next = "Planner" /\ phase = "planning" /\ iteration_count = 0)

\* C6 as stated: in phase reviewing, the first pending verdict in a row is
\* answered by one retry of the reviewer with iteration_count + 1, and only a
\* second one in a row by FINISH.
C6_RetryOnce ==
    (PhaseRuleDecided /\ seen.phase = "reviewing"
        /\ seen.review_status = "pending")
        => IF pending_streak = 1
           THEN next = "Reviewer" /\ iteration_count = seen.iteration_count + 1
           ELSE next = "FINISH" /\ phase = "done"

\* C7: a decision on a fresh user message below the cap routes to the planner,
\* phase planning, with review_status, issues_found and iteration_count reset;
\* the first message of the conversation leaves no plan, a follow-up leaves the
\* plan it found.
C7_UserMessageReset ==
    (Decided /\ seen.user /\ seen.iteration_count < MaxIterations)
        => /\ next = "Planner"
           /\ phase = "planning"
           /\ review_status = "pending"
           /\ issues_found = <<>>
           /\ iteration_count = 0
           /\ (seen.user_msg_count = 1 => plan = None)
           /\ (seen.user_msg_count > 1 => plan = seen.plan)

\* C7 witness: a follow-up message found a plan, a raised count and a verdict,
\* and the decision kept the plan.
C7_Witness ==
    /\ Decided
    /\ seen.user
    /\ seen.user_msg_count > 1
    /\ seen.iteration_count \in 1..(MaxIterations - 1)
    /\ seen.review_status # "pending"
    /\ seen.plan # None
    /\ plan = seen.plan
    /\ next = "Planner"

\* C8 as stated: in phase reviewing, needs_fixes routes to the coder with phase
\* coding, iteration_count + 1 and issues_found equal to the issues of the
\* reviewer's verdict; passed gives FINISH with phase done.
C8_VerdictRouting ==
    (PhaseRuleDecided /\ seen.phase = "reviewing")
        => /\ seen.review_status = "needs_fixes"
                => /\ next = "Coder"
                   /\ phase = "coding"
                   /\ iteration_count = seen.iteration_count + 1
                   /\ issues_found = review_result.issues
           /\ seen.review_status = "passed"
                => (next = "FINISH" /\ phase = "done")

\* C9: a decision in phase planning without a new user message goes to the
\* coder with phase coding when there is a plan, and to FINISH with phase done
\* when there is none.
C9_PlanningRule ==
    (Decided /\ ~seen.user /\ seen.phase = "planning")
        => IF seen.plan # None
           THEN next = "Coder" /\ phase = "coding"
           ELSE next = "FINISH" /\ phase = "done"

\* C9 witness: the planner returned a plan and the supervisor sent the coder.
C9_Witness ==
    /\ Decided
    /\ ~seen.user
    /\ seen.phase = "planning"
    /\ seen.plan # None
    /\ pc = "Coder"

\* C10: whenever the latest decision routed to the reviewer, review_status is
\* pending and phase is reviewing until the reviewer returns; a decision in
\* phase coding (below the cap, no new user message) routes to the reviewer.
C10_ReviewerStartsPending ==
    /\ (Decided /\ next = "Reviewer")
            => (review_status = "pending" /\ phase = "reviewing")
    /\ (PhaseRuleDecided /\ seen.phase = "coding")
            => (next = "Reviewer" /\ phase = "reviewing"
                /\ review_status = "pending")

\* C10 witness: the coder finished a fix round, so the supervisor found the
\* earlier needs_fixes verdict and reset it before starting the reviewer.
C10_Witness ==
    /\ pc = "Reviewer"
    /\ seen.phase = "coding"
    /\ seen.review_status = "needs_fixes"
    /\ review_status = "pending"

\* ========================================================================
\* PatternManager: allow rules and their matching
\* (code_agent/agent/human_in_the_loop.py)
\* ========================================================================

\* Strings are sequences of one-character strings.

\* Longest allow rule the matching model draws.
MaxPatLen == 4

\* Longest argument text the matching model draws.
MaxArgLen == 2

\* All sequences over alphabet of length at most n.
SeqsUpTo(alphabet, n) == UNION {[1..k -> alphabet] : k \in 0..n}

\* fnmatch.fnmatch(name, pat) on a POSIX host (no case folding), for patterns
\* of literals, "*" and "?".
RECURSIVE fnmatch(_, _)
fnmatch(name, pat) ==
    IF pat = <<>> THEN name = <<>>
    ELSE IF Head(pat) = "*"
    THEN fnmatch(name, Tail(pat)) \/ (name # <<>> /\ fnmatch(Tail(name), pat))
    ELSE IF name = <<>> THEN FALSE
    ELSE IF Head(pat) = "?" THEN fnmatch(Tail(name), Tail(pat))
    ELSE Head(name) = Head(pat) /\ fnmatch(Tail(name), Tail(pat))

\* str(args) of the argument dict: the argument text inside the braces of the
\* dict's repr.
str_args(args) == <<"{">> \o args \o <<"}">>

\* Index of the first "(" of a string that has one.
FirstParen(pattern) ==
    CHOOSE i \in 1..Len(pattern) :
        pattern[i] = "(" /\ \A j \in 1..(i - 1) : pattern[j] # "("

\* str.rstrip(")").
RECURSIVE rstrip_paren(_)
rstrip_paren(str) ==
    IF str # <<>> /\ str[Len(str)] = ")"
    THEN rstrip_paren(SubSeq(str, 1, Len(str) - 1))
    ELSE str

\* pattern.split("(", 1): the rule's tool-name glob and, with trailing ")"
\* removed, its argument pattern.
p_tool_name(pattern) == SubSeq(pattern, 1, FirstParen(pattern) - 1)
p_args(pattern) ==
    rstrip_paren(SubSeq(pattern, FirstParen(pattern) + 1, Len(pattern)))

\* Faulty variant of match_pattern: the argument pattern is matched against the
\* whole of str(args).
match_pattern_anchored(pattern, tool_name, args) ==
    IF \A i \in 1..Len(pattern) : pattern[i] # "("
    THEN fnmatch(tool_name, pattern)
    ELSE IF ~fnmatch(tool_name, p_tool_name(pattern)) THEN FALSE
    ELSE IF p_args(pattern) = <<"*">> THEN TRUE
    ELSE fnmatch(str_args(args), p_args(pattern))

\* PatternManager._match_pattern.
match_pattern(pattern, tool_name, args) ==
    IF \A i \in 1..Len(pattern) : pattern[i] # "("
    THEN fnmatch(tool_name, pattern)
    ELSE IF ~fnmatch(tool_name, p_tool_name(pattern)) THEN FALSE
    ELSE IF p_args(pattern) = <<"*">> THEN TRUE
    ELSE fnmatch(str_args(args), <<"*">> \o p_args(pattern) \o <<"*">>)

\* PatternManager.is_allowed over the allow list.
is_allowed(allow, tool_name, args) ==
    \E i \in 1..Len(allow) : match_pattern(allow[i], tool_name, args)

\* The inputs of the matching model.
MatchRules == SeqsUpTo({"a", "*", "(", ")"}, MaxPatLen)
MatchToolNames == {<<"a">>, <<"b">>, <<"a", "a">>}
MatchArgs == SeqsUpTo({"a", "b"}, MaxArgLen)
MatchAllowLists ==
    {<<>>} \cup {<<r>> : r \in MatchRules}
           \cup {<<r, <<"b">>>> : r \in MatchRules}
           \cup {<<<<"b">>, r>> : r \in MatchRules}

MatchInit ==
    /\ match \in [pc : {"called"}, allow : MatchAllowLists,
                  tool_name : MatchToolNames, args : MatchArgs,
                  result : {"unset"}]
    /\ OrchIdle
    /\ PatternIdle
    /\ GateIdle
    /\ ExecIdle
    /\ UnitsIdle

\* is_allowed returns.
IsAllowedReturns ==
    /\ match.pc = "called"
    /\ match' = [match EXCEPT
                    !.pc = "returned",
                    !.result = is_allowed(match.allow, match.tool_name,
                                          match.args)]
    /\ UNCHANGED outside_match

MatchNext == IsAllowedReturns

MatchSpec == MatchInit /\ [][MatchNext]_vars

\* ------------------------------------------------------------------------
\* Properties of the matching
\* ------------------------------------------------------------------------

\* The rule has an argument constraint: it has a "(" and its argument pattern
\* is not the lone "*".
Constrained(rule) ==
    /\ \E i \in 1..Len(rule) : rule[i] = "("
    /\ p_args(rule) # <<"*">>

\* The rule's tool-name glob: the whole rule when it has no "(".
NameGlob(rule) ==
    IF \E i \in 1..Len(rule) : rule[i] = "(" THEN p_tool_name(rule) ELSE rule

\* The substrings of a string.
Substrings(str) ==
    {SubSeq(str, i, j) : i \in 1..(Len(str) + 1), j \in 0..Len(str)}

\* C12 as stated: is_allowed is true exactly when some allow rule has a
\* tool-name glob that matches the tool name and either no argument constraint
\* or an argument glob that matches the stringified arguments.
C12_Original ==
    match.pc = "returned" =>
        (match.result <=>
            \E i \in 1..Len(match.allow) :
                LET rule == match.allow[i] IN
                /\ fnmatch(match.tool_name, NameGlob(rule))
                /\ \/ ~Constrained(rule)
                   \/ fnmatch(str_args(match.args), p_args(rule)))

\* C12 amended: is_allowed is true exactly when some allow rule has a
\* tool-name glob that matches the tool name and either no argument constraint
\* or an argument glob that matches some substring of the stringified
\* arguments.
C12_IsAllowed ==
    match.pc = "returned" =>
        (match.result <=>
            \E i \in 1..Len(match.allow) :
                LET rule == match.allow[i] IN
                /\ fnmatch(match.tool_name, NameGlob(rule))
                /\ \/ ~Constrained(rule)
                   \/ \E sub \in Substrings(str_args(match.args)) :
                         fnmatch(sub, p_args(rule)))

\* C12 witness: a call allowed by the second rule of the list, whose argument
\* glob matches inside the stringified arguments.
C12_Witness ==
    /\ match.pc = "returned"
    /\ match.result = TRUE
    /\ Len(match.allow) = 2
    /\ ~match_pattern(match.allow[1], match.tool_name, match.args)
    /\ Constrained(match.allow[2])
    /\ p_args(match.allow[2]) # <<>>
    /\ ~fnmatch(str_args(match.args), p_args(match.allow[2]))

\* ========================================================================
\* PatternManager: the lists in memory and in allowed_patterns.json
\* ========================================================================

\* Tool names and rules, as strings.
shell == <<"s", "h", "e", "l", "l">>
read_file == <<"r", "e", "a", "d", "_", "f", "i", "l", "e">>
submit_plan == <<"s", "u", "b", "m", "i", "t", "_", "p", "l", "a", "n">>
shell_git == shell \o <<"(", "g", "i", "t", " ", "*", ")">>
shell_rm == shell \o <<"(", "r", "m", " ", "*", ")">>

\* A JSON text is a sequence of tokens: punctuation and strings.
Tok(t) == [t |-> t, v |-> <<>>]
Str(str) == [t |-> "str", v |-> str]
Key(k) == [t |-> "key", v |-> <<k>>]

\* A list of strings as JSON.
dump_list(list) ==
    <<Tok("[")>> \o [i \in 1..Len(list) |-> Str(list[i])] \o <<Tok("]")>>

\* Faulty variant of json_dump: the deny and ask lists change places.
json_dump_swapped(p) ==
    <<Tok("{"), Key("permissions"), Tok("{")>>
    \o <<Key("allow")>> \o dump_list(p.allow)
    \o <<Key("deny")>> \o dump_list(p.ask)
    \o <<Key("ask")>> \o dump_list(p.deny)
    \o <<Tok("}"), Tok("}")>>

\* json.dump({"permissions": patterns}, f).
json_dump(p) ==
    <<Tok("{"), Key("permissions"), Tok("{")>>
    \o <<Key("allow")>> \o dump_list(p.allow)
    \o <<Key("deny")>> \o dump_list(p.deny)
    \o <<Key("ask")>> \o dump_list(p.ask)
    \o <<Tok("}"), Tok("}")>>

\* The list that follows key k in a JSON text.
list_of(text, k) ==
    LET i == CHOOSE n \in 1..Len(text) : text[n] = Key(k)
        j == CHOOSE n \in (i + 1)..Len(text) :
                 /\ text[n] = Tok("]")
                 /\ \A m \in (i + 1)..(n - 1) : text[m] # Tok("]")
    IN  [n \in 1..(j - i - 2) |-> text[i + 1 + n].v]

\* json.loads(content).get("permissions", ...).
json_loads(text) ==
    [allow |-> list_of(text, "allow"),
     deny |-> list_of(text, "deny"),
     ask |-> list_of(text, "ask")]

\* PatternManager._load_patterns: the file's lists, or the lists in memory when
\* there is no file or json.loads raises on its text.
load_patterns(file, current) ==
    IF file = Missing \/ file = EmptyFile THEN current ELSE json_loads(file)

\* PatternManager(): empty lists, then _load_patterns from the workspace's file.
new_pattern_manager(files, w) == load_patterns(files[w], EmptyPatterns)

\* The entries of a list.
Range(list) == {list[i] : i \in 1..Len(list)}

\* What _save_patterns leaves behind: the file's text, and the record of the
\* lists it wrote.
save_patterns(p) ==
    [patterns |-> p,
     file |-> json_dump(p),
     saved |-> [written |-> TRUE, patterns |-> p, reloaded |-> FALSE]]

\* The PatternManager of the running process with its file.
ThePatternManager ==
    [patterns |-> patterns,
     file |-> pattern_files[workspace],
     saved |-> saved[workspace]]

\* Faulty variant of add_pattern: appends and saves without looking.
add_pattern_always(pm, pattern) ==
    save_patterns([pm.patterns EXCEPT !.allow = Append(@, pattern)])

\* PatternManager.add_pattern: a rule not yet in the allow list is appended and
\* the lists are saved.
add_pattern(pm, pattern) ==
    IF pattern \notin Range(pm.patterns.allow)
    THEN save_patterns([pm.patterns EXCEPT !.allow = Append(@, pattern)])
    ELSE pm

\* pattern_manager.add_pattern(pattern) as a step of the running process.
AddPatternStep(pattern) ==
    LET pm == add_pattern(ThePatternManager, pattern) IN
    /\ patterns' = pm.patterns
    /\ pattern_files' = [pattern_files EXCEPT ![workspace] = pm.file]
    /\ saved' = [saved EXCEPT ![workspace] = pm.saved]
    /\ UNCHANGED workspace

\* A new process in workspace w: a new PatternManager loads the workspace's
\* file.
NewProcessStep(w) ==
    /\ workspace' = w
    /\ patterns' = new_pattern_manager(pattern_files, w)
    /\ saved' = IF saved[w].written
                THEN [saved EXCEPT ![w].reloaded = TRUE]
                ELSE saved
    /\ UNCHANGED pattern_files

\* The lists a pattern file can hold when a process starts.
InitialPatternSets ==
    {[allow |-> <<shell_git>>, deny |-> <<>>, ask |-> <<>>],
     [allow |-> <<read_file>>, deny |-> <<shell_rm>>, ask |-> <<shell>>]}
InitialFiles == {Missing} \cup {json_dump(p) : p \in InitialPatternSets}

\* The rules add_pattern is called with.
AddedRules == {shell, read_file, shell_git}

\* A process starts in some workspace, whose pattern file an earlier process
\* may have left.
PatternManagerStarts ==
    /\ workspace \in Workspaces
    /\ pattern_files \in [Workspaces -> InitialFiles]
    /\ patterns = new_pattern_manager(pattern_files, workspace)
    /\ saved = [w \in Workspaces |-> NotSaved]

PatternInit ==
    /\ PatternManagerStarts
    /\ OrchIdle
    /\ MatchIdle
    /\ GateIdle
    /\ ExecIdle
    /\ UnitsIdle

\* add_pattern(pattern) is called.
AddPattern ==
    /\ \E pattern \in AddedRules : AddPatternStep(pattern)
    /\ UNCHANGED outside_pm

\* A new process, and with it a new PatternManager, starts in workspace w.
NewPatternManager ==
    /\ \E w \in Workspaces : NewProcessStep(w)
    /\ UNCHANGED outside_pm

PatternNext == AddPattern \/ NewPatternManager

PatternSpec == PatternInit /\ [][PatternNext]_vars

\* ------------------------------------------------------------------------
\* Properties of the PatternManager
\* ------------------------------------------------------------------------

\* C16: a new PatternManager on a workspace whose file _save_patterns wrote
\* has the allow, deny and ask lists that were saved, in the same order.
C16_RoundTrip ==
    [][NewPatternManager =>
          (saved[workspace'].written =>
              patterns' = saved[workspace'].patterns)]_vars

\* C16 witness: the running PatternManager was loaded from a file that an
\* earlier one saved, with two allow rules and non-empty deny and ask lists.
C16_Witness ==
    /\ saved[workspace].written
    /\ saved[workspace].reloaded
    /\ patterns = saved[workspace].patterns
    /\ Len(patterns.allow) >= 2
    /\ patterns.deny # <<>>
    /\ patterns.ask # <<>>
    /\ patterns.deny # patterns.ask

\* ========================================================================
\* The permission gate: wrap_tool_with_confirmation.wrapped_func
\* ========================================================================

\* Tool calls one process makes through the gate.
MaxCalls == 2

\* The tools of the two workers of the gate model.
WorkerTools(worker) ==
    IF worker = "Planner" THEN {read_file, submit_plan} ELSE {read_file, shell}

\* The argument texts the model gives a tool.
git_status == <<"g", "i", "t", " ", "s">>
rm_x == <<"r", "m", " ", "x">>
ArgsOf(tool) ==
    IF tool = shell THEN {git_status, rm_x}
    ELSE IF tool = submit_plan THEN {<<"p">>}
    ELSE {<<"a">>}

\* The Plan a submit_plan call carries.
PlansOf(tool) == IF tool = submit_plan THEN Plans ELSE {None}

\* interrupt() has not been resumed.
NoDecision == [action |-> "none", reason |-> "", pattern |-> <<>>]

\* The decisions TUI._handle_interrupt returns for a call of the tool.
Decisions(tool) ==
    {[action |-> "approve", reason |-> "", pattern |-> <<>>],
     [action |-> "reject", reason |-> "", pattern |-> <<>>],
     [action |-> "reject", reason |-> "no", pattern |-> <<>>],
     [action |-> "allow_pattern", reason |-> "", pattern |-> tool]}

\* How a tool body ends: submit_plan raises PlanSubmittedException, any other
\* body returns or raises.
Outcomes(tool) ==
    IF tool = submit_plan THEN {"plan_submitted"} ELSE {"returns", "raises"}

\* The events of the gate; call_id 0 stands for an event without call_id.
started_event(c, id, source) ==
    [event_type |-> "tool_started", call_id |-> id, tool |-> c.tool_name,
     status |-> "", decision |-> source]
finished_event(c, id, status, source) ==
    [event_type |-> "tool_finished", call_id |-> id, tool |-> c.tool_name,
     status |-> status, decision |-> source]
rejected_event(c, source) ==
    [event_type |-> "tool_rejected", call_id |-> 0, tool |-> c.tool_name,
     status |-> "rejected", decision |-> source]
confirmation_event(c) ==
    [event_type |-> "tool_confirmation_requested", call_id |-> 0,
     tool |-> c.tool_name, status |-> "", decision |-> ""]

\* The gate's view of the process: the PatternManager, the bus, the ids handed
\* out and the call.
TheGate ==
    [pm |-> ThePatternManager, bus |-> bus, uuids |-> uuids, call |-> call]

\* A call as wrapped_func receives it.
NewCall(tool, args, submitted) ==
    [pc |-> "entered", tool_name |-> tool, args |-> args, plan |-> submitted,
     first_event |-> Len(bus) + 1, allowed |-> FALSE, call_id |-> 0,
     decision_source |-> "", decision |-> NoDecision,
     outcome |-> "none", result |-> [kind |-> "none"]]

\* _execute up to the call of the tool body: a new call_id, tool_started.
execute_start(g, source) ==
    [g EXCEPT
        !.uuids = @ + 1,
        !.bus = Append(@, started_event(g.call, g.uuids + 1, source)),
        !.call = [@ EXCEPT !.pc = "running",
                           !.call_id = g.uuids + 1,
                           !.decision_source = source]]

\* The status _execute reports for an outcome of the tool body.
status_of(outcome) ==
    CASE outcome = "returns" -> "completed"
      [] outcome = "raises" -> "failed"
      [] outcome = "plan_submitted" -> "control_flow"

\* Faulty variant of result_of: the exception of the tool body is raised on.
result_of_reraises(c, outcome) ==
    CASE outcome = "returns" -> [kind |-> "value"]
      [] outcome = "raises" -> [kind |-> "Exception"]
      [] outcome = "plan_submitted" ->
             [kind |-> "PlanSubmittedException", plan |-> c.plan]

\* What wrapped_func hands back for an outcome of the tool body: the body's
\* value, "Error: ..." for an exception, or PlanSubmittedException raised on.
result_of(c, outcome) ==
    CASE outcome = "returns" -> [kind |-> "value"]
      [] outcome = "raises" -> [kind |-> "error_string"]
      [] outcome = "plan_submitted" ->
             [kind |-> "PlanSubmittedException", plan |-> c.plan]

\* wrapped_func ends by an exception rather than a return value.
Raises(result) == result.kind \in {"PlanSubmittedException", "Exception"}

\* Faulty variant of execute_end: tool_finished carries an id of its own.
execute_end_new_id(g, outcome) ==
    [g EXCEPT
        !.uuids = @ + 1,
        !.bus = Append(@, finished_event(g.call, g.uuids + 1,
                                         status_of(outcome),
                                         g.call.decision_source)),
        !.call = [@ EXCEPT
                     !.pc = IF Raises(result_of(g.call, outcome))
                            THEN "raised" ELSE "returned",
                     !.result = result_of(g.call, outcome)]]

\* Faulty variant of execute_end: PlanSubmittedException is turned into an
\* error string like any other exception.
execute_end_swallows_signal(g, outcome) ==
    [g EXCEPT
        !.bus = Append(@, finished_event(g.call, g.call.call_id,
                                         IF outcome = "returns"
                                         THEN "completed" ELSE "failed",
                                         g.call.decision_source)),
        !.call = [@ EXCEPT
                     !.pc = "returned",
                     !.result = IF outcome = "returns"
                                THEN [kind |-> "value"]
                                ELSE [kind |-> "error_string"]]]

\* _execute from the end of the tool body: except and finally.
execute_end(g, outcome) ==
    [g EXCEPT
        !.bus = Append(@, finished_event(g.call, g.call.call_id,
                                         status_of(outcome),
                                         g.call.decision_source)),
        !.call = [@ EXCEPT
                     !.pc = IF Raises(result_of(g.call, outcome))
                            THEN "raised" ELSE "returned",
                     !.result = result_of(g.call, outcome)]]

\* Faulty variant of reject_call: the tool body is run all the same.
reject_call_runs_tool(g, decision) == execute_start(g, "user_rejected")

\* The reject branch: _emit_rejection and the rejection message.
reject_call(g, decision) ==
    [g EXCEPT
        !.bus = Append(@, rejected_event(g.call, "user_rejected")),
        !.call = [@ EXCEPT
                     !.pc = "returned",
                     !.result = [kind |-> "rejected",
                                 tool |-> g.call.tool_name,
                                 reason |-> decision.reason]]]

\* The allow_pattern branch: add_pattern for a non-empty pattern, then _execute.
learn_pattern(g, decision) ==
    execute_start(
        IF decision.pattern # <<>>
        THEN [g EXCEPT !.pm = add_pattern(g.pm, decision.pattern)]
        ELSE g,
        "session_allow")

\* Faulty variant of handle_decision: an action it does not know runs the tool.
handle_decision_unknown_runs(g, decision) ==
    CASE decision.action = "reject" -> reject_call(g, decision)
      [] decision.action = "allow_pattern" -> learn_pattern(g, decision)
      [] OTHER -> execute_start(g, "user_approved")

\* Faulty variant of handle_decision: an approval is remembered as a rule.
handle_decision_approve_learns(g, decision) ==
    CASE decision.action = "approve" ->
             execute_start([g EXCEPT !.pm = add_pattern(g.pm, g.call.tool_name)],
                           "user_approved")
      [] decision.action = "reject" -> reject_call(g, decision)
      [] OTHER -> learn_pattern(g, decision)

\* wrapped_func after interrupt() returned the decision.
handle_decision(g, decision) ==
    CASE decision.action = "approve" -> execute_start(g, "user_approved")
      [] decision.action = "reject" -> reject_call(g, decision)
      [] decision.action = "allow_pattern" -> learn_pattern(g, decision)
      [] OTHER ->
             [g EXCEPT !.call = [@ EXCEPT !.pc = "returned",
                                          !.result = [kind |-> "unknown"]]]

\* Faulty variant of wrapped_func: asks for confirmation without looking at
\* the allow rules.
wrapped_func_always_asks(g, decision) ==
    LET noted == [g EXCEPT
                     !.call.allowed = is_allowed(g.pm.patterns.allow,
                                                 g.call.tool_name, g.call.args),
                     !.call.decision = decision]
        asked == [noted EXCEPT !.bus = Append(@, confirmation_event(g.call))]
    IN  IF decision = NoDecision
        THEN [asked EXCEPT !.call.pc = "suspended"]
        ELSE handle_decision(asked, decision)

\* wrapped_func from its first line, up to the call of the tool body, its
\* return, or the suspension in interrupt(); interrupt() returns the decision
\* when the node is re-executed after Command(resume=decision).
wrapped_func(g, decision) ==
    LET allowed == is_allowed(g.pm.patterns.allow, g.call.tool_name,
                              g.call.args)
        noted == [g EXCEPT !.call.allowed = allowed,
                           !.call.decision = decision]
    IN  IF allowed
        THEN execute_start(noted, "allow_pattern")
        ELSE LET asked == [noted EXCEPT
                              !.bus = Append(@, confirmation_event(g.call))]
             IN  IF decision = NoDecision
                 THEN [asked EXCEPT !.call.pc = "suspended"]
                 ELSE handle_decision(asked, decision)

\* The process after a step of the gate.
SetGate(g) ==
    /\ patterns' = g.pm.patterns
    /\ pattern_files' = [pattern_files EXCEPT ![workspace] = g.pm.file]
    /\ saved' = [saved EXCEPT ![workspace] = g.pm.saved]
    /\ bus' = g.bus
    /\ uuids' = g.uuids
    /\ call' = g.call
    /\ UNCHANGED workspace

\* ------------------------------------------------------------------------
\* worker_node around the tool loop
\* ------------------------------------------------------------------------

\* worker_node's return when PlanSubmittedException reaches it: one summary
\* message and the exception's plan.
return_on_signal(submitted) ==
    [messages |-> <<"plan_submitted_summary">>,
     patch |-> planner_patch(submitted)]

\* worker_node's return when agent_graph.invoke returns: the agent's messages
\* and, for the Planner, the plan of a submit_plan call found in them.
return_on_completion(worker, called_plan) ==
    [messages |-> <<"agent_messages">>,
     patch |-> IF worker = "Planner" THEN planner_patch(called_plan)
               ELSE coder_patch]

\* A process starts in workspace ws1, whose pattern file an earlier process
\* may have left.
GateInit ==
    /\ PatternManagerStarts
    /\ workspace = "ws1"
    /\ \A w \in Workspaces \ {workspace} : pattern_files[w] = Missing
    /\ GateIdle
    /\ OrchIdle
    /\ MatchIdle
    /\ ExecIdle
    /\ UnitsIdle

\* worker_node invokes the worker's agent.
WorkerStarts ==
    /\ loop.status \in {"none", "returned"}
    /\ loop.calls < MaxCalls
    /\ \E worker \in {"Planner", "Coder"} :
          loop' = [NoLoop EXCEPT !.status = "running", !.worker = worker,
                                 !.calls = loop.calls]
    /\ call' = NoCall
    /\ UNCHANGED <<pm_vars, bus, uuids>>
    /\ UNCHANGED outside_gate

\* The worker's model calls a tool: wrapped_func runs to the tool body or to
\* the interrupt.
GateCalled ==
    /\ loop.status = "running"
    /\ call.pc \in {"none", "returned"}
    /\ loop.calls < MaxCalls
    /\ \E tool \in WorkerTools(loop.worker) :
       \E args \in ArgsOf(tool) :
       \E submitted \in PlansOf(tool) :
          /\ SetGate(wrapped_func(
                 [TheGate EXCEPT !.call = NewCall(tool, args, submitted)],
                 NoDecision))
          /\ loop' = [loop EXCEPT
                         !.calls = @ + 1,
                         !.called_plan = IF tool = submit_plan
                                         THEN submitted ELSE @]
    /\ UNCHANGED outside_gate

\* The user answers the confirmation: the TUI resumes the graph, the node and
\* with it wrapped_func run again from the start.
UserDecides ==
    /\ call.pc = "suspended"
    /\ \E decision \in Decisions(call.tool_name) :
          SetGate(wrapped_func(TheGate, decision))
    /\ UNCHANGED loop
    /\ UNCHANGED outside_gate

\* The tool body ends; PlanSubmittedException leaves the tool loop and
\* worker_node returns, any other exception would leave worker_node too.
ToolBodyEnds ==
    /\ call.pc = "running"
    /\ \E outcome \in Outcomes(call.tool_name) :
          LET g == execute_end(TheGate, outcome) IN
          /\ SetGate([g EXCEPT !.call.outcome = outcome])
          /\ loop' = IF g.call.result.kind = "PlanSubmittedException"
                     THEN [loop EXCEPT
                              !.status = "returned",
                              !.ret = return_on_signal(g.call.result.plan)]
                     ELSE IF g.call.pc = "raised"
                     THEN [loop EXCEPT !.status = "failed"]
                     ELSE loop
    /\ UNCHANGED outside_gate

\* The tool body is one that never returns: original_func is the tool's _run,
\* called directly, and _execute waits for it without a limit.
ToolBodyHangs ==
    /\ call.pc = "running"
    /\ call' = [call EXCEPT !.pc = "hung"]
    /\ UNCHANGED <<pm_vars, bus, uuids, loop>>
    /\ UNCHANGED outside_gate

\* The worker's model answers without a tool call: agent_graph.invoke returns.
ModelFinishes ==
    /\ loop.status = "running"
    /\ call.pc \in {"none", "returned"}
    /\ loop' = [loop EXCEPT
                   !.status = "returned",
                   !.ret = return_on_completion(loop.worker, loop.called_plan)]
    /\ UNCHANGED <<pm_vars, bus, uuids, call>>
    /\ UNCHANGED outside_gate

\* The process ends and a new one starts in the same workspace.
Restart ==
    /\ NewProcessStep(workspace)
    /\ bus' = <<>>
    /\ call' = NoCall
    /\ loop' = NoLoop
    /\ uuids' = 0
    /\ UNCHANGED outside_gate

GateNext ==
    \/ WorkerStarts
    \/ GateCalled
    \/ UserDecides
    \/ ToolBodyEnds
    \/ ToolBodyHangs
    \/ ModelFinishes
    \/ Restart

GateSpec == GateInit /\ [][GateNext]_vars

\* A tool body that ends is not left waiting forever.
GateLiveSpec == GateInit /\ [][GateNext]_vars /\ WF_vars(ToolBodyEnds)

\* ------------------------------------------------------------------------
\* Properties of the permission gate
\* ------------------------------------------------------------------------

\* The events published by the step.
NewEvents == SubSeq(bus', Len(bus) + 1, Len(bus'))

\* The events published for the call so far.
CallEvents == SubSeq(bus, call.first_event, Len(bus))

\* The events of a sequence with the given type.
OfType(events, type) ==
    {i \in 1..Len(events) : events[i].event_type = type}

\* A call entering the gate: matched by an allow rule it goes on to the tool
\* body with no confirmation event and no suspension, otherwise it is
\* suspended behind one tool_confirmation_requested event.
PromptIffNoMatchOnEntry ==
    GateCalled =>
        LET allowed == is_allowed(patterns.allow, call'.tool_name, call'.args)
        IN  /\ allowed =>
                  /\ call'.pc = "running"
                  /\ OfType(NewEvents, "tool_confirmation_requested") = {}
                  /\ NewEvents[1].event_type = "tool_started"
            /\ ~allowed =>
                  /\ call'.pc = "suspended"
                  /\ NewEvents = <<confirmation_event(call')>>

\* Over the whole call: a call that an allow rule matched has no
\* tool_confirmation_requested event, and any other call has one before
\* anything else.
PromptIffNoMatchInCall ==
    call.pc # "none" =>
        IF call.allowed
        THEN OfType(CallEvents, "tool_confirmation_requested") = {}
        ELSE CallEvents[1].event_type = "tool_confirmation_requested"

\* C11: the gate publishes tool_confirmation_requested and suspends the worker
\* exactly when no allow rule matches the tool call; a matching call runs with
\* no such event and no suspension, and for a call matching none the event
\* comes before the wait for the decision.
C11_PromptIffNoMatch ==
    [][PromptIffNoMatchOnEntry]_vars /\ []PromptIffNoMatchInCall

\* C11 witness: a call of shell matched by the rule shell(git *) runs its body
\* with tool_started as its only event.
C11_Witness ==
    /\ call.pc = "running"
    /\ call.allowed
    /\ call.tool_name = shell
    /\ shell \notin Range(patterns.allow)
    /\ CallEvents = <<started_event(call, call.call_id, "allow_pattern")>>

\* C13: on a reject decision the tool body is not run and nothing is raised:
\* the call returns the rejection message, with the reason when one was given,
\* a tool_rejected event is published and no tool_started event.
C13_RejectReturnsMessage ==
    (call.pc # "none" /\ call.decision.action = "reject" /\ ~call.allowed) =>
        /\ call.pc = "returned"
        /\ call.outcome = "none"
        /\ call.call_id = 0
        /\ call.result = [kind |-> "rejected", tool |-> call.tool_name,
                          reason |-> call.decision.reason]
        /\ OfType(CallEvents, "tool_started") = {}
        /\ OfType(CallEvents, "tool_finished") = {}
        /\ CallEvents[Len(CallEvents)] = rejected_event(call, "user_rejected")
        /\ Cardinality(OfType(CallEvents, "tool_rejected")) = 1

\* C13 witness: a call rejected with a reason has returned its message.
C13_Witness ==
    /\ call.pc = "returned"
    /\ call.decision.action = "reject"
    /\ call.decision.reason = "no"
    /\ call.result.kind = "rejected"
    /\ call.result.reason = "no"

\* The step handles the decision of a suspended call.
Decides(action) ==
    /\ call.pc = "suspended"
    /\ call'.pc # "none"
    /\ call'.decision.action = action

AllCalls ==
    UNION {{<<tool, args>> : args \in ArgsOf(tool)} :
              tool \in {shell, read_file, submit_plan}}

\* add_pattern of a rule that is in the allow list changes neither the lists
\* nor the file.
AddPatternIdempotent ==
    \A rule \in Range(patterns.allow) :
        /\ add_pattern(ThePatternManager, rule) = ThePatternManager
        /\ \A i, j \in 1..Len(patterns.allow) :
              patterns.allow[i] = patterns.allow[j] => i = j

\* A call that an allow rule matches is matched after every step, and entering
\* the gate it is neither suspended nor announced for confirmation.
MatchedStaysUnprompted ==
    /\ patterns' # patterns =>
          \A c \in AllCalls :
              is_allowed(patterns.allow, c[1], c[2]) =>
                  is_allowed(patterns'.allow, c[1], c[2])
    /\ (GateCalled /\ is_allowed(patterns.allow, call'.tool_name, call'.args))
          => /\ call'.pc = "running"
             /\ OfType(NewEvents, "tool_confirmation_requested") = {}

\* C15: add_pattern(p) with p in the allow list leaves the list and the file
\* as they are, and once a rule matching a call is in the allow list, the call
\* is never prompted for again, however often it is repeated.
C15_LearnedOnce == []AddPatternIdempotent /\ [][MatchedStaysUnprompted]_vars

\* C15 witness: a tool learnt by "always allow" is called again and runs
\* without a prompt.
C15_Witness ==
    /\ call.pc = "running"
    /\ call.decision_source = "allow_pattern"
    /\ CallEvents = <<started_event(call, call.call_id, "allow_pattern")>>
    /\ \E i \in 1..(call.first_event - 1) :
          /\ bus[i].event_type = "tool_started"
          /\ bus[i].decision = "session_allow"
          /\ bus[i].tool = call.tool_name

\* The events of the whole bus that carry the call's id.
WithCallId == {i \in 1..Len(bus) : bus[i].call_id = call.call_id}

\* C17: a call through the gate that runs the tool has exactly one
\* tool_started and, once the body has ended by return, exception or plan
\* submission, exactly one tool_finished after it with the same call_id, which
\* no other event carries; a rejected call has a tool_rejected event.
C17_OutcomeOnBus ==
    /\ call.pc = "running" =>
          /\ call.call_id # 0
          /\ Cardinality(OfType(CallEvents, "tool_started")) = 1
          /\ OfType(CallEvents, "tool_finished") = {}
          /\ bus[Len(bus)].event_type = "tool_started"
          /\ WithCallId = {Len(bus)}
    /\ (call.pc \in {"returned", "raised"} /\ call.call_id # 0) =>
          /\ Cardinality(OfType(CallEvents, "tool_started")) = 1
          /\ Cardinality(OfType(CallEvents, "tool_finished")) = 1
          /\ OfType(CallEvents, "tool_rejected") = {}
          /\ bus[Len(bus) - 1].event_type = "tool_started"
          /\ bus[Len(bus)].event_type = "tool_finished"
          /\ bus[Len(bus)].status = status_of(call.outcome)
          /\ WithCallId = {Len(bus) - 1, Len(bus)}
    /\ (call.pc \in {"returned", "raised"} /\ call.call_id = 0) =>
          /\ bus[Len(bus)].event_type = "tool_rejected"
          /\ OfType(CallEvents, "tool_started") = {}

\* C17 witness: the second call of a process ended by plan submission after an
\* approval, with its two events on the bus.
C17_Witness ==
    /\ call.pc = "raised"
    /\ call.decision_source = "user_approved"
    /\ call.call_id = 2
    /\ bus[Len(bus)] = finished_event(call, 2, "control_flow", "user_approved")

\* C18: when the body of submit_plan has run, the tool loop is over: the
\* worker has returned the submitted Plan and one synthetic message, the
\* tool_finished event of submit_plan is the last event, and no tool call is
\* taken up or carried on.
C18_PlanSubmissionStopsLoop ==
    /\ [](call.pc # "none" /\ call.outcome = "plan_submitted" =>
             /\ loop.status = "returned"
             /\ loop.ret = [messages |-> <<"plan_submitted_summary">>,
                            patch |-> [plan |-> call.plan]]
             /\ bus[Len(bus)] =
                    finished_event(call, call.call_id, "control_flow",
                                   call.decision_source))
    /\ [][(call.pc # "none" /\ call.outcome = "plan_submitted") =>
             ~(GateCalled \/ UserDecides \/ ToolBodyEnds \/ ModelFinishes)]_vars

\* C18 witness: the planner submitted planB after another tool call.
C18_Witness ==
    /\ call.pc = "raised"
    /\ call.plan = "planB"
    /\ loop.worker = "Planner"
    /\ loop.calls = 2
    /\ loop.ret.patch = [plan |-> "planB"]

\* ========================================================================
\* BaseTool.execute: timeout and retry (src/tools/base.py)
\* ========================================================================

\* self.timeout in seconds, small enough to enumerate.
Timeout == 3

\* The clock of the execute model stops here.
MaxTime == 7

\* execute calls on the one tool.
MaxExecCalls == 2

\* BaseTool.__init__ defaults.
MaxRetries == 2
RetryMinWait == 1
RetryMaxWait == 10

\* wait_exponential(min, max) after the given attempt, in seconds.
retry_wait(attempt) ==
    LET exp == 2 ^ (attempt - 1) IN
    IF exp < RetryMinWait THEN RetryMinWait
    ELSE IF exp > RetryMaxWait THEN RetryMaxWait
    ELSE exp

\* How one attempt of _run ends: it returns, raises RetryableError, raises
\* the builtin TimeoutError, or raises another exception.
BodyEndings == {"returns", "RetryableError", "TimeoutError", "Exception"}

\* A future is done when it holds a value or an exception.
Done(future) == future \in {"value", "TimeoutError", "Exception"}

\* The dict execute returns for what future.result(timeout) gave: the value,
\* FutureTimeoutError or another exception.  concurrent.futures.TimeoutError
\* is the builtin TimeoutError from Python 3.11 on, so a TimeoutError raised
\* by the body is reported as a timeout there and as a failure before.
execute_result(outcome) ==
    CASE outcome = "value" ->
             {[raised |-> FALSE, success |-> TRUE, output |-> "output",
               seconds |-> 0]}
      [] outcome = "FutureTimeoutError" ->
             {[raised |-> FALSE, success |-> FALSE,
               output |-> "Tool execution timed out after", seconds |-> Timeout]}
      [] outcome = "TimeoutError" ->
             {[raised |-> FALSE, success |-> FALSE,
               output |-> "Tool execution timed out after", seconds |-> Timeout],
              [raised |-> FALSE, success |-> FALSE,
               output |-> "Tool execution failed", seconds |-> 0]}
      [] OTHER ->
             {[raised |-> FALSE, success |-> FALSE,
               output |-> "Tool execution failed", seconds |-> 0]}

\* The tool and its executor before the first call.
NewTool ==
    [pc |-> "idle", now |-> 0, calls |-> 0, started_at |-> 0, deadline |-> 0,
     returned_at |-> 0, future_at_return |-> "none",
     result |-> [raised |-> FALSE, success |-> FALSE, output |-> "",
                 seconds |-> 0],
     queue |-> <<>>,
     thread |-> [pc |-> "idle", task |-> 0, attempts |-> 0, wake |-> 0],
     futures |-> [n \in 1..MaxExecCalls |-> "none"],
     submissions |-> [n \in 1..MaxExecCalls |-> 0],
     endings |-> [n \in 1..MaxExecCalls |-> <<>>]]

\* self._executor.submit(self._run_with_retry): the task joins the queue of
\* the executor's one thread.
submit(e, n) ==
    [e EXCEPT !.queue = Append(@, n),
              !.futures[n] = "pending",
              !.submissions[n] = @ + 1]

\* execute up to future.result(timeout=self.timeout).
execute_called(e) ==
    [submit(e, e.calls + 1) EXCEPT
        !.pc = "waiting",
        !.calls = @ + 1,
        !.started_at = e.now,
        !.deadline = e.now + Timeout]

\* Faulty variant of execute_returns: a timed-out call is submitted again.
execute_returns_resubmits(e, result) ==
    IF Done(e.futures[e.calls])
    THEN [e EXCEPT !.pc = "returned", !.returned_at = e.now,
                   !.future_at_return = e.futures[e.calls],
                   !.result = result]
    ELSE [submit(e, e.calls) EXCEPT !.deadline = e.now + Timeout]

\* execute from the return of future.result to its own return.
execute_returns(e, result) ==
    [e EXCEPT !.pc = "returned",
              !.returned_at = e.now,
              !.future_at_return = e.futures[e.calls],
              !.result = result]

\* Faulty variant of attempt_ends: every exception is retried.
attempt_ends_retries_all(e, ending) ==
    LET n == e.thread.task
        idle == [pc |-> "idle", task |-> 0, attempts |-> 0, wake |-> 0]
    IN  IF ending = "returns"
        THEN [e EXCEPT !.futures[n] = "value", !.thread = idle]
        ELSE IF e.thread.attempts < MaxRetries + 1
        THEN [e EXCEPT !.thread.pc = "sleeping",
                       !.thread.wake = e.now + retry_wait(e.thread.attempts)]
        ELSE [e EXCEPT !.futures[n] = "Exception", !.thread = idle]

\* One attempt of _run ends in the executor's thread: tenacity sleeps and
\* tries again after RetryableError while attempts are left, and otherwise the
\* future is done.
attempt_ends(e, ending) ==
    LET n == e.thread.task
        idle == [pc |-> "idle", task |-> 0, attempts |-> 0, wake |-> 0]
    IN  CASE ending = "returns" ->
                 [e EXCEPT !.futures[n] = "value", !.thread = idle]
          [] ending = "RetryableError" ->
                 IF e.thread.attempts < MaxRetries + 1
                 THEN [e EXCEPT
                          !.thread.pc = "sleeping",
                          !.thread.wake =
                              e.now + retry_wait(e.thread.attempts)]
                 ELSE [e EXCEPT !.futures[n] = "Exception", !.thread = idle]
          [] OTHER ->
                 [e EXCEPT !.futures[n] = ending, !.thread = idle]

ExecInit ==
    /\ tool_exec = NewTool
    /\ OrchIdle
    /\ MatchIdle
    /\ PatternIdle
    /\ GateIdle
    /\ UnitsIdle

\* execute is called.
ExecuteCalled ==
    /\ tool_exec.pc \in {"idle", "returned"}
    /\ tool_exec.calls < MaxExecCalls
    /\ tool_exec.now + Timeout <= MaxTime
    /\ tool_exec' = execute_called(tool_exec)
    /\ UNCHANGED outside_exec

\* The executor's thread takes the next task and starts its first attempt.
ThreadTakesTask ==
    /\ tool_exec.thread.pc = "idle"
    /\ tool_exec.queue # <<>>
    /\ tool_exec' = [tool_exec EXCEPT
                        !.queue = Tail(@),
                        !.futures[Head(tool_exec.queue)] = "running",
                        !.thread = [pc |-> "running",
                                    task |-> Head(tool_exec.queue),
                                    attempts |-> 1, wake |-> 0]]
    /\ UNCHANGED outside_exec

\* tenacity's wait is over: the next attempt starts.
ThreadRetries ==
    /\ tool_exec.thread.pc = "sleeping"
    /\ tool_exec.now >= tool_exec.thread.wake
    /\ tool_exec' = [tool_exec EXCEPT !.thread.pc = "running",
                                      !.thread.attempts = @ + 1]
    /\ UNCHANGED outside_exec

\* An attempt of the body ends.
AttemptEnds ==
    /\ tool_exec.thread.pc = "running"
    /\ \E ending \in BodyEndings :
          tool_exec' = [attempt_ends(tool_exec, ending) EXCEPT
                           !.endings[tool_exec.thread.task] = Append(@, ending)]
    /\ UNCHANGED outside_exec

\* future.result returns the value or raises the task's exception.
FutureDone ==
    /\ tool_exec.pc = "waiting"
    /\ Done(tool_exec.futures[tool_exec.calls])
    /\ \E result \in execute_result(tool_exec.futures[tool_exec.calls]) :
          tool_exec' = execute_returns(tool_exec, result)
    /\ UNCHANGED outside_exec

\* future.result raises FutureTimeoutError at the deadline.
FutureTimesOut ==
    /\ tool_exec.pc = "waiting"
    /\ ~Done(tool_exec.futures[tool_exec.calls])
    /\ tool_exec.now >= tool_exec.deadline
    /\ \E result \in execute_result("FutureTimeoutError") :
          tool_exec' = execute_returns(tool_exec, result)
    /\ UNCHANGED outside_exec

\* A second passes; future.result does not sleep past a done future or past
\* its deadline.
Tick ==
    /\ tool_exec.now < MaxTime
    /\ ~(/\ tool_exec.pc = "waiting"
         /\ \/ Done(tool_exec.futures[tool_exec.calls])
            \/ tool_exec.now >= tool_exec.deadline)
    /\ tool_exec' = [tool_exec EXCEPT !.now = @ + 1]
    /\ UNCHANGED outside_exec

ExecNext ==
    \/ ExecuteCalled
    \/ ThreadTakesTask
    \/ ThreadRetries
    \/ AttemptEnds
    \/ FutureDone
    \/ FutureTimesOut
    \/ Tick

\* The clock runs and future.result(timeout) is a bounded wait.
ExecSpec ==
    /\ ExecInit
    /\ [][ExecNext]_vars
    /\ WF_vars(Tick) /\ WF_vars(FutureDone) /\ WF_vars(FutureTimesOut)

\* ------------------------------------------------------------------------
\* Properties of execute
\* ------------------------------------------------------------------------

\* The dict execute returns on a timeout.
TimedOutResult ==
    [raised |-> FALSE, success |-> FALSE,
     output |-> "Tool execution timed out after", seconds |-> Timeout]

\* What execute has returned: never later than self.timeout seconds after the
\* call, whatever the attempts and waits of the retry sequence, and the
\* timed-out result when the task was not done by then.
ReturnsWithinTimeout ==
    tool_exec.pc = "returned" =>
        /\ ~tool_exec.result.raised
        /\ tool_exec.returned_at - tool_exec.started_at <= Timeout
        /\ ~Done(tool_exec.future_at_return) =>
              /\ tool_exec.result = TimedOutResult
              /\ tool_exec.returned_at = tool_exec.deadline

\* A call is submitted to the executor once, and an attempt after the first
\* starts only from tenacity's wait after a RetryableError.
NoRetryOfTimeout ==
    /\ \A n \in 1..MaxExecCalls : tool_exec'.submissions[n] <= 1
    /\ (/\ tool_exec'.thread.task = tool_exec.thread.task
        /\ tool_exec'.thread.attempts > tool_exec.thread.attempts)
          => /\ tool_exec.thread.pc = "sleeping"
             /\ tool_exec.thread.attempts <= MaxRetries

\* C20: execute always returns; when the body has not finished within the
\* tool's timeout it returns success=false and "timed out after N seconds", the
\* timeout runs from the call over the whole retry sequence, and a timed-out
\* call is not run again.
C20_ExecuteAlwaysReturns ==
    /\ []ReturnsWithinTimeout
    /\ [][NoRetryOfTimeout]_vars
    /\ (tool_exec.pc = "waiting") ~> (tool_exec.pc = "returned")

\* C20 witness: execute returned the timeout result while the retry sequence
\* was in its second attempt or later.
C20_Witness ==
    /\ tool_exec.pc = "returned"
    /\ tool_exec.result = TimedOutResult
    /\ tool_exec.thread.task = tool_exec.calls
    /\ tool_exec.thread.attempts >= 2
    /\ tool_exec.future_at_return = "running"

\* ------------------------------------------------------------------------
\* Error propagation through the gate and execute
\* ------------------------------------------------------------------------

\* C19: an exception of a tool body reaches neither the worker nor the
\* orchestrator: the gate returns an "Error: ..." string and publishes
\* tool_finished with status failed, execute returns a failed result for every
\* exception, and the gate raises only for plan submission.
C19_ErrorsBecomeResults ==
    /\ loop.status # "failed"
    /\ call.pc # "none" =>
          /\ call.outcome = "raises" =>
                /\ call.pc = "returned"
                /\ call.result = [kind |-> "error_string"]
                /\ loop.status \in {"running", "returned"}
                /\ bus[Len(bus)] =
                       finished_event(call, call.call_id, "failed",
                                      call.decision_source)
          /\ call.pc = "raised" =>
                /\ call.outcome = "plan_submitted"
                /\ call.result.kind = "PlanSubmittedException"
    /\ \A ending \in {"TimeoutError", "Exception", "FutureTimeoutError"} :
       \A result \in execute_result(ending) :
          ~result.raised /\ ~result.success

\* C19 witness: the body of a tool run after an approval raised, and the call
\* returned the error string to the running tool loop.
C19_Witness ==
    /\ call.pc = "returned"
    /\ call.outcome = "raises"
    /\ call.decision_source = "user_approved"
    /\ call.result.kind = "error_string"
    /\ loop.status = "running"

\* The body was invoked at most limit times for every call; only a
\* RetryableError is followed by another invocation, any other ending leaves
\* the future done at once, and a body that raised RetryableError in every
\* invocation allowed leaves an exception, which execute reports as a failed
\* result.
RetryOnlyRetryable(limit) ==
    /\ \A n \in 1..MaxExecCalls :
          LET e == tool_exec.endings[n] IN
          /\ Len(e) <= limit
          /\ \A i \in 1..(Len(e) - 1) : e[i] = "RetryableError"
          /\ (e # <<>> /\ e[Len(e)] # "RetryableError") =>
                Done(tool_exec.futures[n])
          /\ (e # <<>> /\ e[Len(e)] \in {"Exception", "TimeoutError"}) =>
                tool_exec.futures[n] = e[Len(e)]
          /\ (Len(e) = MaxRetries + 1 /\ e[Len(e)] = "RetryableError") =>
                tool_exec.futures[n] = "Exception"
    /\ (tool_exec.pc = "returned"
          /\ tool_exec.future_at_return \in {"Exception", "TimeoutError"})
          => ~tool_exec.result.success /\ ~tool_exec.result.raised

\* C21 as stated: the bound on the invocations of a body that keeps raising a
\* retryable error is 2.
C21_Original == RetryOnlyRetryable(2)

\* C21 amended: the bound is max_retries + 1 = 3 invocations, the first
\* attempt and two retries.
C21_RetryOnlyRetryable == RetryOnlyRetryable(MaxRetries + 1)

\* C21 witness: a body raised RetryableError three times and execute returned
\* the failed result.
C21_Witness ==
    /\ tool_exec.pc = "returned"
    /\ tool_exec.endings[tool_exec.calls] =
           <<"RetryableError", "RetryableError", "RetryableError">>
    /\ tool_exec.future_at_return = "Exception"
    /\ tool_exec.result.output = "Tool execution failed"

\* ------------------------------------------------------------------------
\* The gate and execute
\* ------------------------------------------------------------------------

\* C22: a tool call issued through the gate does not stay in its tool body
\* for ever: the worker gets a result (a timed-out failure when the body never
\* returns), unless the process is ended.
C22_GateCallsReturn ==
    (call.pc = "running") ~> (call.pc \in {"returned", "raised", "none"})

\* ------------------------------------------------------------------------
\* worker_node for the Reviewer: the verification check
\* ------------------------------------------------------------------------
MaxHistory == 2
MaxReviewerCalls == 2

\* What the verdict parsers extract from a message's content when it holds no
\* verdict (or is empty).
NoVerdict == [status |-> "none", issues |-> <<>>]

\* A message: says is what the verdict parsers extract from its content.
human_msg == [type |-> "human", tool_calls |-> <<>>, says |-> NoVerdict]
ai_msg(calls) == [type |-> "ai", tool_calls |-> calls, says |-> NoVerdict]
verdict_msg(v) == [type |-> "ai", tool_calls |-> <<>>, says |-> v]
warning_msg == [type |-> "ai", tool_calls |-> <<"warning">>, says |-> NoVerdict]

\* The verdicts a Reviewer's message can hold.
SaidVerdicts == {v \in Verdicts : v.status # "pending"}

\* Messages earlier workers left in AgentState.messages: worker_node returns
\* every message of a worker's run, its tool-calling messages included.
\* A Reviewer of an earlier round left its verdict.
EarlierMessages ==
    {ai_msg(<<>>), ai_msg(<<"read_file">>), ai_msg(<<"write_file">>)}
        \cup {verdict_msg(v) : v \in SaidVerdicts}

\* state["messages"] when the Reviewer node starts: the user's message and what
\* the Planner and the Coder added (trim_messages keeps all of a short list).
Histories == {<<human_msg>> \o h : h \in SeqsUpTo(EarlierMessages, MaxHistory)}

\* Tools the Reviewer's model calls in the run.
ReviewerCalls == {"read_file", "shell", "grep_search"}

verification_tools == {"shell", "read_file", "list_files"}

\* tool_calls_made: the names of the tool calls of every message in the list.
tool_calls_made(msgs) ==
    UNION {Range(msgs[i].tool_calls) : i \in 1..Len(msgs)}

\* The verdict loop of worker_node: it walks new_messages from the last to the
\* first and stops at the first message a parser gets a verdict from.
parse_verdict(new_messages) ==
    LET found == {i \in 1..Len(new_messages) : new_messages[i].says # NoVerdict}
    IN  IF found = {}
        THEN [status |-> "pending", issues |-> <<>>]
        ELSE new_messages[CHOOSE i \in found : \A j \in found : i >= j].says

\* What worker_node returns for the Reviewer: new_messages are the messages of
\* the agent's result, verdict is what the verdict parsers extracted.
reviewer_return(new_messages, verdict) ==
    LET tools_used == tool_calls_made(new_messages) \cap verification_tools
    IN  [messages |-> IF tools_used = {}
                      THEN Append(new_messages, warning_msg)
                      ELSE new_messages,
         patch |-> reviewer_patch(tools_used # {}, verdict.status,
                                  verdict.issues)]

\* The Reviewer node starts on a conversation.
ReviewInit ==
    /\ \E h \in Histories : review = [pc |-> "running", given |-> h, run |-> <<>>]
    /\ ProcIdle
    /\ PathIdle
    /\ QueueIdle
    /\ AddersIdle
    /\ RolesIdle
    /\ OrchIdle
    /\ MatchIdle
    /\ PatternIdle
    /\ GateIdle
    /\ ExecIdle
    /\ CallsIdle

\* The Reviewer's model calls a tool: the agent adds the calling message.
ReviewerCallsTool ==
    /\ review.pc = "running"
    /\ Len(review.run) < MaxReviewerCalls
    /\ \E t \in ReviewerCalls :
        review' = [review EXCEPT !.run = Append(@, ai_msg(<<t>>))]
    /\ UNCHANGED outside_review

\* The Reviewer's model answers, with a verdict or with a message the parsers
\* get none from: agent_graph.invoke returns the whole message list of the
\* agent's state and worker_node builds its return value from it.
ReviewerAnswers ==
    /\ review.pc = "running"
    /\ \E said \in SaidVerdicts \cup {NoVerdict} :
        LET new_messages == review.given \o review.run \o <<verdict_msg(said)>>
            v == parse_verdict(new_messages)
        IN  review' = [pc |-> "returned", given |-> review.given,
                       run |-> review.run, said |-> said, verdict |-> v,
                       ret |-> reviewer_return(new_messages, v)]
    /\ UNCHANGED outside_review

ReviewNext ==
    \/ ReviewerCallsTool
    \/ ReviewerAnswers

ReviewSpec == ReviewInit /\ [][ReviewNext]_vars

\* C23: a Reviewer run that called none of list_files, read_file and shell
\* returns review_status pending and a warning as its last message, whatever
\* verdict the Reviewer gave.
C23_UnverifiedReviewIsPending ==
    (/\ review.pc = "returned"
     /\ tool_calls_made(review.run) \cap verification_tools = {})
    => /\ review.ret.patch.review_status = "pending"
       /\ review.ret.messages[Len(review.ret.messages)] = warning_msg

\* ------------------------------------------------------------------------
\* ProcessRegistry and the background processes
\* ------------------------------------------------------------------------
MaxPids == 3
Pids == 1..MaxPids

\* Parent of a process the host started, and of one the system adopted when
\* its parent exited.
Parents == [host |-> 0, adopted |-> -1]

\* psutil.pid_exists: the process runs or is a zombie not yet reaped.
pid_exists(t, p) == t[p].state \in {"running", "zombie"}

RECURSIVE Ancestors(_, _)
Ancestors(t, p) ==
    IF t[p].parent \in Pids
    THEN {t[p].parent} \cup Ancestors(t, t[p].parent)
    ELSE {}

\* The processes parent.children(recursive=True) lists.
Descendants(t, p) == {q \in Pids : pid_exists(t, q) /\ p \in Ancestors(t, q)}

RECURSIVE Ascending(_)
Ascending(S) ==
    IF S = {} THEN <<>>
    ELSE LET m == CHOOSE x \in S : \A y \in S : x <= y
         IN  <<m>> \o Ascending(S \ {m})

\* The processes of S are no longer there; the system adopts their children.
exit_of(t, S) ==
    [q \in Pids |->
        IF q \in S THEN [t[q] EXCEPT !.state = "exited"]
        ELSE IF t[q].parent \in S THEN [t[q] EXCEPT !.parent = Parents.adopted]
        ELSE t[q]]

\* ProcessRegistry.register
register(reg, pid) == reg \cup {pid}

\* ProcessRegistry.get_active_processes: the active list and the pruned
\* registry.
get_active_processes(t, reg) ==
    LET active == {p \in reg : t[p].state = "running"}
    IN  [active |-> active, processes |-> active]

\* ProcessRegistry.kill_process(pid).  kills are issued to the children in
\* the order listed and then to the parent; fail_at is the position of the
\* kill that raises exc (0: none raises).  A kill raises NoSuchProcess when
\* its target has gone since the children were listed.
kill_process(t, reg, pid, fail_at, exc) ==
    IF pid \notin reg /\ ~pid_exists(t, pid)
    THEN [ptable |-> t, processes |-> reg, result |-> FALSE, kills |-> <<>>]
    ELSE IF ~pid_exists(t, pid)
    THEN [ptable |-> t, processes |-> reg \ {pid}, result |-> FALSE,
          kills |-> <<>>]
    ELSE
        LET targets == Ascending(Descendants(t, pid)) \o <<pid>>
            Killed(n) == {targets[i] : i \in 1..n}
        IN  IF fail_at = 0 \/ fail_at > Len(targets)
            THEN [ptable |-> exit_of(t, Killed(Len(targets))),
                  processes |-> reg \ {pid}, result |-> TRUE,
                  kills |-> targets]
            ELSE IF exc = "NoSuchProcess"
            THEN [ptable |-> exit_of(t, Killed(fail_at)),
                  processes |-> reg \ {pid}, result |-> FALSE,
                  kills |-> SubSeq(targets, 1, fail_at)]
            ELSE [ptable |-> exit_of(t, Killed(fail_at - 1)),
                  processes |-> reg, result |-> FALSE,
                  kills |-> SubSeq(targets, 1, fail_at)]

KillExceptions == {"NoSuchProcess", "AccessDenied"}

NoOp == [op |-> "none"]

ProcInit ==
    /\ ptable = [p \in Pids |-> [state |-> "free", parent |-> Parents.host]]
    /\ processes = {}
    /\ reg_op = [pc |-> "idle", todo |-> <<>>, last |-> NoOp, tracked |-> {}]
    /\ ReviewIdle
    /\ PathIdle
    /\ QueueIdle
    /\ AddersIdle
    /\ RolesIdle
    /\ OrchIdle
    /\ MatchIdle
    /\ PatternIdle
    /\ GateIdle
    /\ ExecIdle
    /\ CallsIdle

FreePids == {p \in Pids : ptable[p].state = "free"}

\* ShellTool._run_background: the command is started; it ends within the two
\* seconds of the validation wait, or it is registered.
RunBackground ==
    /\ reg_op.pc = "idle"
    /\ FreePids # {}
    /\ LET pid == CHOOSE p \in FreePids : \A q \in FreePids : p <= q IN
       \E ends_early \in BOOLEAN :
        /\ ptable' = [ptable EXCEPT ![pid] =
              [state |-> IF ends_early THEN "exited" ELSE "running",
               parent |-> Parents.host]]
        /\ processes' = IF ends_early THEN processes
                        ELSE register(processes, pid)
        /\ reg_op' = [reg_op EXCEPT !.last =
              [op |-> "launch", pid |-> pid, registered |-> ~ends_early]]
    /\ UNCHANGED outside_proc

\* A running process starts a child.
Spawn ==
    /\ FreePids # {}
    /\ LET pid == CHOOSE p \in FreePids : \A q \in FreePids : p <= q IN
       \E parent \in Pids :
        /\ ptable[parent].state = "running"
        /\ ptable' = [ptable EXCEPT ![pid] =
              [state |-> "running", parent |-> parent]]
    /\ UNCHANGED <<processes, reg_op>>
    /\ UNCHANGED outside_proc

\* A running process ends by itself; it stays a zombie until it is reaped.
Exit ==
    /\ \E p \in Pids :
        /\ ptable[p].state = "running"
        /\ ptable' = [exit_of(ptable, {p}) EXCEPT ![p].state = "zombie"]
    /\ UNCHANGED <<processes, reg_op>>
    /\ UNCHANGED outside_proc

Reap ==
    /\ \E p \in Pids :
        /\ ptable[p].state = "zombie"
        /\ ptable' = [ptable EXCEPT ![p].state = "exited"]
    /\ UNCHANGED <<processes, reg_op>>
    /\ UNCHANGED outside_proc

\* process_manager(action="list")
ListProcesses ==
    /\ reg_op.pc = "idle"
    /\ LET r == get_active_processes(ptable, processes) IN
        /\ processes' = r.processes
        /\ reg_op' = [reg_op EXCEPT !.last = [op |-> "list", active |-> r.active]]
    /\ UNCHANGED ptable
    /\ UNCHANGED outside_proc

\* What a kill_process call leaves in reg_op.last.
killed(pid, r) ==
    [op |-> "kill", pid |-> pid, was_tracked |-> pid \in processes,
     tree |-> Descendants(ptable, pid) \cup {pid}, result |-> r.result,
     kills |-> r.kills]

\* process_manager(action="kill", pid)
KillProcess ==
    /\ reg_op.pc = "idle"
    /\ \E pid \in Pids, fail_at \in 0..MaxPids, exc \in KillExceptions :
        LET r == kill_process(ptable, processes, pid, fail_at, exc) IN
        /\ fail_at = 0 => exc = "NoSuchProcess"
        /\ ptable' = r.ptable
        /\ processes' = r.processes
        /\ reg_op' = [reg_op EXCEPT !.last = killed(pid, r)]
    /\ UNCHANGED outside_proc

\* The interpreter exits: atexit runs cleanup_all, which copies the keys.
CleanupStarts ==
    /\ reg_op.pc = "idle"
    /\ reg_op' = [reg_op EXCEPT !.pc = "cleanup",
                                !.todo = IF processes = {} THEN <<>>
                                         ELSE Ascending(processes),
                                !.tracked = processes]
    /\ UNCHANGED <<ptable, processes>>
    /\ UNCHANGED outside_proc

\* cleanup_all: the next kill_process of the loop, or the end of the hook.
CleanupStep ==
    /\ reg_op.pc = "cleanup"
    /\ IF reg_op.todo = <<>>
       THEN /\ reg_op' = [reg_op EXCEPT !.pc = "exited"]
            /\ UNCHANGED <<ptable, processes>>
       ELSE \E fail_at \in 0..MaxPids, exc \in KillExceptions :
            LET pid == Head(reg_op.todo)
                r == kill_process(ptable, processes, pid, fail_at, exc)
            IN  /\ fail_at = 0 => exc = "NoSuchProcess"
                /\ ptable' = r.ptable
                /\ processes' = r.processes
                /\ reg_op' = [reg_op EXCEPT !.todo = Tail(@),
                                            !.last = killed(pid, r)]
    /\ UNCHANGED outside_proc

ProcNext ==
    \/ RunBackground
    \/ Spawn
    \/ Exit
    \/ Reap
    \/ ListProcesses
    \/ KillProcess
    \/ CleanupStarts
    \/ CleanupStep

ProcSpec == ProcInit /\ [][ProcNext]_vars

Running(S) == {q \in S : ptable[q].state = "running"}

\* C24: when kill(pid) on a tracked process has returned, the parent was the
\* last process killed, neither it nor any of its descendants is running and
\* the pid is not in the registry.
C24_KillTakesTheTree ==
    (reg_op.pc = "idle" /\ reg_op.last.op = "kill" /\ reg_op.last.was_tracked)
    => /\ Running(reg_op.last.tree) = {}
       /\ reg_op.last.pid \notin processes
       /\ \A i \in 1..Len(reg_op.last.kills) :
            reg_op.last.kills[i] = reg_op.last.pid
                => i = Len(reg_op.last.kills)

\* C25: when the shutdown hook has run, no process that was tracked when it
\* started is running.
C25_CleanupKillsTracked ==
    reg_op.pc = "exited" => Running(reg_op.tracked) = {}

\* C26: a step that drops a record drops the record of a process that is not
\* running afterwards.
C26_RunningStaysTracked ==
    [][\A p \in processes \ processes' : ptable'[p].state # "running"]_vars

\* ------------------------------------------------------------------------
\* resolve_workspace_path
\* ------------------------------------------------------------------------
MaxPathLen == 3

\* A path is its segments and whether it starts at "/".
Segments == {"ws", "a", "..", ".", "out", "link"}
PathStrings ==
    {[absolute |-> ab, segs |-> sg] :
        ab \in BOOLEAN, sg \in SeqsUpTo(Segments, MaxPathLen)}

\* settings.workspace_root: /ws
workspace_root == <<"ws">>

\* The symbolic links of the file system: /ws/link leads out of the
\* workspace, /out/link leads into it.
Symlinks == {<<"ws", "link">>, <<"out", "link">>}
link_target(p) == IF p = <<"ws", "link">> THEN <<"out">> ELSE <<"ws", "a">>

\* Path.resolve() of an absolute path: "." is dropped, ".." steps up (not
\* above "/"), a symbolic link is replaced by what it leads to.
RECURSIVE resolve_from(_, _)
resolve_from(at, segs) ==
    IF segs = <<>> THEN at
    ELSE LET sg == Head(segs)
             to == IF sg = "." THEN at
                   ELSE IF sg = ".."
                   THEN (IF at = <<>> THEN at ELSE SubSeq(at, 1, Len(at) - 1))
                   ELSE IF Append(at, sg) \in Symlinks
                   THEN link_target(Append(at, sg))
                   ELSE Append(at, sg)
         IN  resolve_from(to, Tail(segs))

resolve(segs) == resolve_from(<<>>, segs)

\* PurePath.relative_to succeeds: other is path or one of its parents.
relative_to(path, other) ==
    /\ Len(other) <= Len(path)
    /\ SubSeq(path, 1, Len(other)) = other

Denied == [ok |-> FALSE, error |-> "Access denied"]

\* Faulty variant of resolve_workspace_path: containment is tested on the
\* path as joined, before it is resolved.
resolve_workspace_path_joined(path_str) ==
    LET path == IF path_str.absolute THEN path_str.segs
                ELSE workspace_root \o path_str.segs
    IN  IF relative_to(path, resolve(workspace_root))
        THEN [ok |-> TRUE, path |-> resolve(path)]
        ELSE Denied

resolve_workspace_path(path_str) ==
    LET path == IF path_str.absolute THEN path_str.segs
                ELSE workspace_root \o path_str.segs
        resolved_path == resolve(path)
    IN  IF relative_to(resolved_path, resolve(workspace_root))
        THEN [ok |-> TRUE, path |-> resolved_path]
        ELSE Denied

PathInit ==
    /\ \E ps \in PathStrings : path_call = [pc |-> "called", path_str |-> ps]
    /\ ReviewIdle
    /\ ProcIdle
    /\ QueueIdle
    /\ AddersIdle
    /\ RolesIdle
    /\ OrchIdle
    /\ MatchIdle
    /\ PatternIdle
    /\ GateIdle
    /\ ExecIdle
    /\ CallsIdle

ResolveReturns ==
    /\ path_call.pc = "called"
    /\ path_call' = [pc |-> "returned", path_str |-> path_call.path_str,
                     result |-> resolve_workspace_path(path_call.path_str)]
    /\ UNCHANGED outside_path

PathNext == ResolveReturns

PathSpec == PathInit /\ [][PathNext]_vars

\* The directory or file the system reaches for an absolute path lies in the
\* workspace: no step of the walk from "/" is outside /ws at the end.
ReachesInsideWorkspace(path) ==
    LET reached == resolve(path)
    IN  /\ reached # <<>>
        /\ reached[1] = "ws"
        /\ \A i \in 1..Len(path) : path[i] \notin {".", ".."}

\* C27: resolve_workspace_path returns an absolute path that lies under the
\* workspace root, or it fails with the access-denied error.
C27_ResolvedInsideOrDenied ==
    path_call.pc = "returned" =>
        \/ path_call.result = Denied
        \/ /\ path_call.result.ok
           /\ ReachesInsideWorkspace(path_call.result.path)

\* A relative path with a ".." segment that stays inside the workspace is
\* returned resolved.
C27_Witness ==
    /\ path_call.pc = "returned"
    /\ path_call.path_str = [absolute |-> FALSE, segs |-> <<"a", "..", "a">>]
    /\ path_call.result = [ok |-> TRUE, path |-> <<"ws", "a">>]

\* ------------------------------------------------------------------------
\* The event bus under concurrent publishers and drainers
\* ------------------------------------------------------------------------
MaxEvents == 3
MaxItems == 1

PublisherThreads == {"p1", "p2"}
DrainerThreads == {"d1", "d2"}

\* max_items: None, or a number.
MaxItemsArgs ==
    {[none |-> TRUE, k |-> 0]} \cup {[none |-> FALSE, k |-> k] : k \in 0..MaxItems}

\* An event is known by its place in the order of the Queue.put calls.
Enqueued == Len(event_log) + Cardinality({p \in PublisherThreads :
                                            publishers[p].pc = "queued"})

\* Queue.get_nowait on a queue that is not empty: the oldest item, which
\* leaves the queue.
\* Faulty variant of get_nowait: the item stays in the queue.
get_nowait_keeps(q) == [item |-> Head(q), queue |-> q]

get_nowait(q) == [item |-> Head(q), queue |-> Tail(q)]

\* One pass of drain_tool_events' loop: the call returns at max_items events
\* or on Empty, and takes the oldest event otherwise.
drain_pass(d, q) ==
    IF (~d.max_items.none /\ Len(d.events) >= d.max_items.k) \/ q = <<>>
    THEN [drainer |-> [d EXCEPT !.pc = "returned"], queue |-> q]
    ELSE LET g == get_nowait(q)
         IN  [drainer |-> [d EXCEPT !.events = Append(@, g.item)],
              queue |-> g.queue]

\* got: the events the thread's earlier drain calls returned.
NoDrain == [pc |-> "idle", got |-> {}]

QueueInit ==
    /\ event_queue = <<>>
    /\ event_log = <<>>
    /\ publishers = [p \in PublisherThreads |-> [pc |-> "idle"]]
    /\ drainers = [d \in DrainerThreads |-> NoDrain]
    /\ ReviewIdle
    /\ ProcIdle
    /\ PathIdle
    /\ AddersIdle
    /\ RolesIdle
    /\ OrchIdle
    /\ MatchIdle
    /\ PatternIdle
    /\ GateIdle
    /\ ExecIdle
    /\ CallsIdle

\* publish_tool_event up to _EVENT_QUEUE.put(event).
Publish(p) ==
    /\ publishers[p].pc = "idle"
    /\ Enqueued < MaxEvents
    /\ event_queue' = Append(event_queue, Enqueued + 1)
    /\ publishers' = [publishers EXCEPT ![p] =
                        [pc |-> "queued", event |-> Enqueued + 1]]
    /\ UNCHANGED <<event_log, drainers>>
    /\ UNCHANGED outside_queue

\* publish_tool_event from the log write, under _LOG_WRITE_LOCK, to its return.
WriteLog(p) ==
    /\ publishers[p].pc = "queued"
    /\ event_log' = Append(event_log, publishers[p].event)
    /\ publishers' = [publishers EXCEPT ![p] = [pc |-> "idle"]]
    /\ UNCHANGED <<event_queue, drainers>>
    /\ UNCHANGED outside_queue

\* drain_tool_events(max_items) is called.
DrainCalled(d) ==
    /\ drainers[d].pc \in {"idle", "returned"}
    /\ \E mi \in MaxItemsArgs :
        drainers' = [drainers EXCEPT ![d] =
            [pc |-> "draining", max_items |-> mi, events |-> <<>>,
             got |-> IF drainers[d].pc = "returned"
                     THEN drainers[d].got \cup Range(drainers[d].events)
                     ELSE drainers[d].got]]
    /\ UNCHANGED <<event_queue, event_log, publishers>>
    /\ UNCHANGED outside_queue

DrainPass(d) ==
    /\ drainers[d].pc = "draining"
    /\ LET r == drain_pass(drainers[d], event_queue) IN
        /\ drainers' = [drainers EXCEPT ![d] = r.drainer]
        /\ event_queue' = r.queue
    /\ UNCHANGED <<event_log, publishers>>
    /\ UNCHANGED outside_queue

QueueNext ==
    \/ \E p \in PublisherThreads : Publish(p)
    \/ \E p \in PublisherThreads : WriteLog(p)
    \/ \E d \in DrainerThreads : DrainCalled(d)
    \/ \E d \in DrainerThreads : DrainPass(d)

QueueSpec == QueueInit /\ [][QueueNext]_vars

\* The events of the drain call the thread is in or has just returned from.
Events(d) == IF drainers[d].pc = "idle" THEN <<>> ELSE drainers[d].events

Places(sq, e) == {i \in 1..Len(sq) : sq[i] = e}

Increasing(sq) == \A i, j \in 1..Len(sq) : i < j => sq[i] < sq[j]

\* C28: every event put in the queue is in the queue or was taken by exactly
\* one drain call, once; the queue and every drain's list are in the order of
\* the puts; a drain call under way can always take its next step; a call
\* with max_items = k holds at most k events.
C28_EachEventOnceInOrder ==
    /\ \A e \in 1..Enqueued :
        Cardinality(Places(event_queue, e))
            + Cardinality({d \in DrainerThreads : Places(Events(d), e) # {}})
            + Cardinality({d \in DrainerThreads : e \in drainers[d].got}) = 1
    /\ \A d \in DrainerThreads :
        /\ \A e \in 1..Enqueued : Cardinality(Places(Events(d), e)) <= 1
        /\ drainers[d].pc # "idle" =>
            /\ Increasing(drainers[d].events)
            /\ ~drainers[d].max_items.none =>
                  Len(drainers[d].events) <= drainers[d].max_items.k
        /\ drainers[d].pc = "draining" => ENABLED DrainPass(d)
    /\ Increasing(event_queue)

\* Two drain calls shared the events: one with max_items = 1 returned one
\* event and left the rest, in order, to the other.
C28_Witness ==
    /\ drainers["d1"].pc = "returned"
    /\ drainers["d1"].max_items = [none |-> FALSE, k |-> 1]
    /\ drainers["d1"].events = <<1>>
    /\ drainers["d2"].pc = "returned"
    /\ drainers["d2"].max_items.none
    /\ drainers["d2"].events = <<2, 3>>
    /\ event_queue = <<>>

\* ------------------------------------------------------------------------
\* Concurrent add_pattern calls
\* ------------------------------------------------------------------------
MaxAdds == 2

AddThreads == {"t1", "t2"}

NoAdd == [pc |-> "idle", calls |-> 0, pattern |-> <<>>, added |-> {}]

\* One process, its PatternManager loaded from the workspace's file.
SharedInit ==
    /\ workspace = "ws1"
    /\ pattern_files \in {f \in [Workspaces -> InitialFiles] : f["ws2"] = Missing}
    /\ patterns = new_pattern_manager(pattern_files, workspace)
    /\ saved = [w \in Workspaces |-> NotSaved]
    /\ adders = [t \in AddThreads |-> NoAdd]
    /\ ReviewIdle
    /\ ProcIdle
    /\ PathIdle
    /\ QueueIdle
    /\ RolesIdle
    /\ OrchIdle
    /\ MatchIdle
    /\ GateIdle
    /\ ExecIdle
    /\ CallsIdle

\* A thread calls add_pattern(pattern).
AddCalled(t) ==
    /\ adders[t].pc \in {"idle", "done"}
    /\ adders[t].calls < MaxAdds
    /\ \E pattern \in AddedRules :
        adders' = [adders EXCEPT ![t].pc = "test", ![t].pattern = pattern,
                                 ![t].calls = @ + 1]
    /\ UNCHANGED pm_vars
    /\ UNCHANGED outside_adders

\* if pattern not in self.patterns["allow"]
AddTests(t) ==
    /\ adders[t].pc = "test"
    /\ adders' = [adders EXCEPT
          ![t].pc = IF adders[t].pattern \notin Range(patterns.allow)
                    THEN "append" ELSE "done",
          ![t].added = @ \cup {adders[t].pattern}]
    /\ UNCHANGED pm_vars
    /\ UNCHANGED outside_adders

\* self.patterns["allow"].append(pattern)
AddAppends(t) ==
    /\ adders[t].pc = "append"
    /\ patterns' = [patterns EXCEPT !.allow = Append(@, adders[t].pattern)]
    /\ adders' = [adders EXCEPT ![t].pc = "save"]
    /\ UNCHANGED <<pattern_files, workspace, saved>>
    /\ UNCHANGED outside_adders

\* self._save_patterns()
AddSaves(t) ==
    /\ adders[t].pc = "save"
    /\ LET pm == save_patterns(patterns) IN
        /\ pattern_files' = [pattern_files EXCEPT ![workspace] = pm.file]
        /\ saved' = [saved EXCEPT ![workspace] = pm.saved]
    /\ adders' = [adders EXCEPT ![t].pc = "done"]
    /\ UNCHANGED <<patterns, workspace>>
    /\ UNCHANGED outside_adders

SharedNext ==
    \/ \E t \in AddThreads : AddCalled(t)
    \/ \E t \in AddThreads : AddTests(t)
    \/ \E t \in AddThreads : AddAppends(t)
    \/ \E t \in AddThreads : AddSaves(t)

SharedSpec == SharedInit /\ [][SharedNext]_vars

NoDuplicates(list) ==
    \A i, j \in 1..Len(list) : list[i] = list[j] => i = j

\* C29: under concurrent add_pattern calls no rule is twice in the allow list,
\* in memory or in the saved file, and once every call has returned each rule
\* added is in both.
C29_NoLostOrDuplicatePattern ==
    /\ NoDuplicates(patterns.allow)
    /\ saved[workspace].written =>
          NoDuplicates(json_loads(pattern_files[workspace]).allow)
    /\ (\A t \in AddThreads : adders[t].pc \in {"idle", "done"}) =>
          \A t \in AddThreads :
              /\ adders[t].added \subseteq Range(patterns.allow)
              /\ adders[t].added # {} =>
                    adders[t].added \subseteq
                        Range(json_loads(pattern_files[workspace]).allow)

\* ------------------------------------------------------------------------
\* The tool lists of the roles
\* ------------------------------------------------------------------------

\* The names of the tools _register_default_tools registers.
DefaultTools ==
    {"read_file", "write_file", "list_files", "grep_search", "str_replace",
     "insert_lines", "delete_lines", "append_file", "create_directory",
     "copy_file", "move_file", "delete_path", "path_exists", "shell",
     "process_manager", "submit_plan", "web_search"}

\* The default tools that write, create, edit or delete.
WriteTools ==
    {"write_file", "str_replace", "insert_lines", "delete_lines",
     "append_file", "create_directory", "copy_file", "move_file",
     "delete_path"}

\* Names of tools an MCP server provides or a caller registers.
OtherTools ==
    {"fetch", "fetch_html", "spawn_sub_agent", "write_file", "submit_plan",
     "sql_delete"}

PLANNER_ALLOWED_TOOLS ==
    {"read_file", "list_files", "path_exists", "grep_search", "submit_plan",
     "web_search", "fetch", "fetch_html"}

REVIEWER_ALLOWED_TOOLS ==
    {"read_file", "list_files", "path_exists", "grep_search", "shell",
     "web_search", "process_manager"}

tools_for_planner(lc_tools) == lc_tools \cap PLANNER_ALLOWED_TOOLS

tools_for_coder(lc_tools) == lc_tools \ {"submit_plan"}

\* Faulty variant of tools_for_reviewer: the Coder's filter.
tools_for_reviewer_as_coder(lc_tools) == lc_tools \ {"submit_plan"}

tools_for_reviewer(lc_tools) == lc_tools \cap REVIEWER_ALLOWED_TOOLS

\* The three lists made from lc_tools.
tool_lists(lc_tools) ==
    [Planner |-> tools_for_planner(lc_tools),
     Coder |-> tools_for_coder(lc_tools),
     Reviewer |-> tools_for_reviewer(lc_tools)]

\* The module is imported: the registry holds the default tools, the lists
\* are made from them and the agents are created with the lists.
RolesInit ==
    /\ role_tools = [tools |-> DefaultTools, mcp_tools |-> {},
                     mcp_loaded |-> FALSE,
                     lists |-> tool_lists(DefaultTools),
                     agents |-> tool_lists(DefaultTools)]
    /\ ReviewIdle
    /\ ProcIdle
    /\ PathIdle
    /\ QueueIdle
    /\ AddersIdle
    /\ OrchIdle
    /\ MatchIdle
    /\ PatternIdle
    /\ GateIdle
    /\ ExecIdle
    /\ CallsIdle

\* registry.register(tool)
RegisterTool ==
    /\ \E name \in OtherTools :
        role_tools' = [role_tools EXCEPT !.tools = @ \cup {name}]
    /\ UNCHANGED outside_roles

\* initialize_mcp_tools: the MCP tools are loaded unless they were, all tools
\* are listed anew and the three lists are made again; a failure leaves
\* everything as it was.
InitializeMcpTools ==
    /\ \E served \in SUBSET OtherTools, fails \in BOOLEAN :
        IF fails THEN UNCHANGED role_tools
        ELSE LET mcp == IF role_tools.mcp_loaded THEN role_tools.mcp_tools
                        ELSE served
                 lc_tools == role_tools.tools \cup mcp
             IN  role_tools' = [role_tools EXCEPT !.mcp_tools = mcp,
                                                  !.mcp_loaded = TRUE,
                                                  !.lists = tool_lists(lc_tools)]
    /\ UNCHANGED outside_roles

\* create_multi_agent_graph: the agents are created with the lists as they are.
CreateAgents ==
    /\ role_tools' = [role_tools EXCEPT !.agents = role_tools.lists]
    /\ UNCHANGED outside_roles

RolesNext ==
    \/ RegisterTool
    \/ InitializeMcpTools
    \/ CreateAgents

RolesSpec == RolesInit /\ [][RolesNext]_vars

RoleToolsOk(lists) ==
    /\ lists.Reviewer \subseteq REVIEWER_ALLOWED_TOOLS
    /\ lists.Reviewer \cap WriteTools = {}
    /\ "submit_plan" \notin lists.Coder
    /\ lists.Planner \subseteq PLANNER_ALLOWED_TOOLS

\* C30: the Reviewer's tools are all in its allow-set and none of them is a
\* write, create, edit or delete tool, the Coder's tools do not hold
\* submit_plan, and the Planner's tools are all in its allow-set; for the
\* lists of the module and for the lists the agents were created with.
C30_RoleToolLists ==
    RoleToolsOk(role_tools.lists) /\ RoleToolsOk(role_tools.agents)

\* The lists were made again with MCP tools and registered tools whose names
\* are write_file and submit_plan, and the agents were created with them.
C30_Witness ==
    /\ role_tools.mcp_tools = {"fetch", "write_file", "submit_plan", "sql_delete"}
    /\ "spawn_sub_agent" \in role_tools.tools
    /\ role_tools.agents.Reviewer = REVIEWER_ALLOWED_TOOLS
    /\ "fetch" \in role_tools.agents.Planner
    /\ {"write_file", "sql_delete", "spawn_sub_agent"}
          \subseteq role_tools.agents.Coder

\* C37: kill(pid) for a pid the registry does not track returns failure and
\* kills nothing, whether or not a process with that pid exists.
C37_KillOnlyTracked ==
    (reg_op.pc = "idle" /\ reg_op.last.op = "kill" /\ ~reg_op.last.was_tracked)
    => /\ ~reg_op.last.result
       /\ reg_op.last.kills = <<>>

\* C38: a Reviewer run that yields a verdict leaves the issues of that
\* verdict, and no others, in issues_found.
C38_IssuesOfThisReview ==
    [][(/\ pc = "Reviewer"
        /\ pc' = "Supervisor"
        /\ review_status' \in {"passed", "needs_fixes"})
       => issues_found' = review_result'.issues]_vars

\* C39: the supervisor routes to the Coder only when the Planner has submitted
\* a plan since the latest user message; a Planner round without a submission
\* is followed by FINISH.
C39_CoderOnlyAfterSubmission ==
    [][(pc = "Supervisor" /\ pc' = "Coder") => planner_submission # None]_vars

\* A rule of the deny list matches the call.
MatchesDeny == is_allowed(patterns.deny, call.tool_name, call.args)

\* C36: a tool call that matches a rule of the deny list is never run without
\* a confirmation prompt, even when an allow rule matches it as well: a call
\* whose body was started has a tool_confirmation_requested event.
C36_DeniedCallIsPrompted ==
    (call.pc # "none" /\ MatchesDeny /\ call.call_id # 0) =>
        OfType(CallEvents, "tool_confirmation_requested") # {}


\* A resume value whose action wrapped_func does not know.
UnknownDecision == [action |-> "other", reason |-> "", pattern |-> <<>>]

\* The tool_started events wrapped_func adds to the bus of the process.
StartsAdded(g) ==
    {i \in Len(bus) + 1..Len(g.bus) : g.bus[i].event_type = "tool_started"}

\* The body was started for the call so far exactly when an allow rule matched
\* it or its decision was approve or allow_pattern, and then once.
BodyRunsOnceWhenLetThrough ==
    call.pc # "none" =>
        LET starts == Cardinality(OfType(CallEvents, "tool_started"))
            let_through == \/ call.allowed
                           \/ call.decision.action \in {"approve", "allow_pattern"}
        IN  /\ starts = IF let_through THEN 1 ELSE 0
            /\ call.outcome # "none" => starts = 1
            /\ call.pc = "suspended" => call.decision = NoDecision

\* Resuming a suspended call starts the body once for approve and
\* allow_pattern and not at all for reject and for an unknown action.
ResumeRunsOnlyApproved ==
    call.pc = "suspended" =>
        \A d \in Decisions(call.tool_name) \cup {UnknownDecision} :
            LET g == wrapped_func(TheGate, d)
            IN  IF d.action \in {"approve", "allow_pattern"}
                THEN g.call.pc = "running" /\ Cardinality(StartsAdded(g)) = 1
                ELSE g.call.pc = "returned" /\ StartsAdded(g) = {}

\* C35: the gate runs the tool body at most once per call and only when an
\* allow rule matched the call or the resumed decision was approve or
\* allow_pattern; for reject, for an unknown action and while the decision is
\* pending the body is not run.
C35_BodyOnlyWhenLetThrough ==
    BodyRunsOnceWhenLetThrough /\ ResumeRunsOnlyApproved

\* C35 witness: an approved call has run its body once and returned.
C35_Witness ==
    /\ call.pc = "returned"
    /\ ~call.allowed
    /\ call.decision.action = "approve"
    /\ call.outcome = "returns"
    /\ Cardinality(OfType(CallEvents, "tool_started")) = 1


\* C33: the review_status of a Reviewer run comes from the final message of
\* the run: when the parsers get no verdict from that message the status is
\* pending, whatever earlier messages of the history hold.
C33_StatusFromFinalMessage ==
    (review.pc = "returned" /\ review.said = NoVerdict)
    => review.ret.patch.review_status = "pending"


\* ------------------------------------------------------------------------
\* _save_patterns as the file system sees it
\* ------------------------------------------------------------------------
MaxSaves == 2
MaxRestarts == 2

\* The rules a complete document of the file has held that a load does not
\* return.
not_loaded(learned, loaded) == learned \ Range(loaded.allow)

\* One process, its PatternManager loaded from the workspace's file.  learned
\* are the rules a complete document of the file has held, lost those of
\* them the latest _load_patterns of a process of the workspace missed.
SaveInit ==
    /\ workspace = "ws1"
    /\ pattern_files \in {f \in [Workspaces -> InitialFiles] : f["ws2"] = Missing}
    /\ patterns = new_pattern_manager(pattern_files, workspace)
    /\ saved = [w \in Workspaces |-> NotSaved]
    /\ save_op = [pc |-> "idle", saves |-> 0, restarts |-> 0,
                  previous |-> pattern_files[workspace],
                  learned |-> Range(patterns.allow),
                  lost |-> {}]
    /\ TrimIdle
    /\ ShellIdle
    /\ ObserverIdle
    /\ ReviewIdle
    /\ ProcIdle
    /\ PathIdle
    /\ QueueIdle
    /\ AddersIdle
    /\ RolesIdle
    /\ OrchIdle
    /\ MatchIdle
    /\ GateIdle
    /\ ExecIdle

\* add_pattern of a rule not in the allow list: it is appended and
\* _save_patterns is entered.
SaveCalled ==
    /\ save_op.pc = "idle"
    /\ save_op.saves < MaxSaves
    /\ \E pattern \in AddedRules \ Range(patterns.allow) :
        patterns' = [patterns EXCEPT !.allow = Append(@, pattern)]
    /\ save_op' = [save_op EXCEPT !.pc = "open", !.saves = @ + 1,
                                  !.previous = pattern_files[workspace]]
    /\ UNCHANGED <<pattern_files, workspace, saved>>
    /\ UNCHANGED outside_save

\* pathlib.Path(self.pattern_file).open("w"): the file is truncated.
SaveOpens ==
    /\ save_op.pc = "open"
    /\ pattern_files' = [pattern_files EXCEPT ![workspace] = EmptyFile]
    /\ save_op' = [save_op EXCEPT !.pc = "dump"]
    /\ UNCHANGED <<patterns, workspace, saved>>
    /\ UNCHANGED outside_save

\* json.dump(data, f, indent=2) and the close of the file.
SaveDumps ==
    /\ save_op.pc = "dump"
    /\ LET pm == save_patterns(patterns) IN
        /\ pattern_files' = [pattern_files EXCEPT ![workspace] = pm.file]
        /\ saved' = [saved EXCEPT ![workspace] = pm.saved]
    /\ save_op' = [save_op EXCEPT !.pc = "idle",
                                  !.learned = @ \cup Range(patterns.allow)]
    /\ UNCHANGED <<patterns, workspace>>
    /\ UNCHANGED outside_save

\* The process is killed, wherever it is, and a new one is started in the
\* workspace: PatternManager() loads the file.
ProcessRestarts ==
    /\ save_op.restarts < MaxRestarts
    /\ patterns' = new_pattern_manager(pattern_files, workspace)
    /\ save_op' = [save_op EXCEPT !.pc = "idle", !.restarts = @ + 1,
                                  !.lost = not_loaded(save_op.learned,
                                                      patterns')]
    /\ UNCHANGED <<pattern_files, workspace, saved>>
    /\ UNCHANGED outside_save

\* A second process is started in the workspace and loads the file.
SecondProcessLoads ==
    /\ save_op' = [save_op EXCEPT
                      !.lost = not_loaded(save_op.learned,
                                          new_pattern_manager(pattern_files,
                                                              workspace))]
    /\ save_op' # save_op
    /\ UNCHANGED pm_vars
    /\ UNCHANGED outside_save

SaveNext ==
    \/ SaveCalled
    \/ SaveOpens
    \/ SaveDumps
    \/ ProcessRestarts
    \/ SecondProcessLoads

SaveSpec == SaveInit /\ [][SaveNext]_vars

\* C31: a save of a new pattern rewrites the pattern file atomically: at every
\* instant the file holds the complete document of before the save or the
\* complete new one, and no load, after a crash or by a second process in the
\* middle of a save, misses a rule the file has held.
C31_SaveIsAtomic ==
    /\ pattern_files[workspace] \in {save_op.previous, json_dump(patterns)}
    /\ save_op.lost = {}


\* ------------------------------------------------------------------------
\* trim_messages
\* ------------------------------------------------------------------------
MaxTrimLen == 3
MaxBudget == 2
MaxKeep == 2

\* A message of the history: whether it is a SystemMessage and
\* len(str(m.content)); id tells the messages of a history apart.
TrimContents == [system : BOOLEAN, chars : {0, 4}]
TrimHistories ==
    {[i \in 1..Len(h) |-> [id |-> i, system |-> h[i].system,
                           chars |-> h[i].chars]] :
        h \in SeqsUpTo(TrimContents, MaxTrimLen)}

IsSystemMessage(m) == m.system
NotSystemMessage(m) == ~m.system

RECURSIVE total_chars(_)
total_chars(msgs) ==
    IF msgs = <<>> THEN 0 ELSE Head(msgs).chars + total_chars(Tail(msgs))

\* list[-n:] of Python, for 0 <= n <= len(list): the last n entries, and the
\* whole list for n = 0.
last_slice(list, n) ==
    IF n = 0 THEN list ELSE SubSeq(list, Len(list) - n + 1, Len(list))

\* Faulty variant of trim_messages: the oldest messages are kept.
trim_messages_keeps_first(msgs, max_tokens, keep_last) ==
    LET system_msgs == SelectSeq(msgs, IsSystemMessage)
        other_msgs == SelectSeq(msgs, NotSystemMessage)
    IN  IF total_chars(msgs) < 4 * max_tokens
        THEN msgs
        ELSE system_msgs \o
             (IF Len(other_msgs) > keep_last
              THEN SubSeq(other_msgs, 1, keep_last)
              ELSE other_msgs)

\* trim_messages(messages, max_tokens, keep_last); est_tokens < max_tokens
\* with est_tokens = total_chars / 4.
trim_messages(msgs, max_tokens, keep_last) ==
    LET system_msgs == SelectSeq(msgs, IsSystemMessage)
        other_msgs == SelectSeq(msgs, NotSystemMessage)
    IN  IF total_chars(msgs) < 4 * max_tokens
        THEN msgs
        ELSE system_msgs \o
             (IF Len(other_msgs) > keep_last
              THEN last_slice(other_msgs, keep_last)
              ELSE other_msgs)

\* trim_messages is called on a history.
TrimInit ==
    /\ trim_call \in [pc : {"called"}, messages : TrimHistories,
                      max_tokens : 1..MaxBudget, keep_last : 0..MaxKeep,
                      result : {<<>>}, again : {<<>>}]
    /\ SaveIdle
    /\ ShellIdle
    /\ ObserverIdle
    /\ ReviewIdle
    /\ ProcIdle
    /\ PathIdle
    /\ QueueIdle
    /\ AddersIdle
    /\ RolesIdle
    /\ OrchIdle
    /\ MatchIdle
    /\ PatternIdle
    /\ GateIdle
    /\ ExecIdle

\* The call returns.
TrimReturns ==
    /\ trim_call.pc = "called"
    /\ trim_call' = [trim_call EXCEPT
          !.pc = "returned",
          !.result = trim_messages(trim_call.messages, trim_call.max_tokens,
                                   trim_call.keep_last)]
    /\ UNCHANGED outside_trim

\* The next worker trims the history it was given once more.
TrimsAgain ==
    /\ trim_call.pc = "returned"
    /\ trim_call' = [trim_call EXCEPT
          !.pc = "again",
          !.again = trim_messages(trim_call.result, trim_call.max_tokens,
                                  trim_call.keep_last)]
    /\ UNCHANGED outside_trim

TrimNext ==
    \/ TrimReturns
    \/ TrimsAgain

TrimSpec == TrimInit /\ [][TrimNext]_vars

\* The last k entries of a list.
MostRecent(list, k) == SubSeq(list, Len(list) - k + 1, Len(list))

UnderBudget == total_chars(trim_call.messages) < 4 * trim_call.max_tokens

\* What the claim says of a call that has returned.
TrimKeepsRecent ==
    LET others == SelectSeq(trim_call.messages, NotSystemMessage)
        n == IF trim_call.keep_last < Len(others)
             THEN trim_call.keep_last ELSE Len(others)
    IN  /\ SelectSeq(trim_call.result, IsSystemMessage) =
              SelectSeq(trim_call.messages, IsSystemMessage)
        /\ UnderBudget => trim_call.result = trim_call.messages
        /\ ~UnderBudget =>
              SelectSeq(trim_call.result, NotSystemMessage) =
                  MostRecent(others, n)
        /\ trim_call.pc = "again" => trim_call.again = trim_call.result

MaxObserved == 2

\* The threads that drain: the dedicated consumer, and the main thread in
\* _flush_tool_events.
ObserverThreads == {"consumer", "main"}

\* The events of the tool calls in the order they are published: event
\* 2c - 1 is tool_started of call c and event 2c its tool_finished.
IsFinished(e) == e % 2 = 0
StartedOf(e) == e - 1

\* drain_tool_events() with no max_items, one pass of its loop at a time.
DrainAll(events) ==
    [pc |-> "draining", max_items |-> [none |-> TRUE, k |-> 0],
     events |-> events]

\* The consumer thread is at the top of its loop, the main thread outside
\* _flush_tool_events.
ObserverInit ==
    /\ observer = [queue |-> <<>>, published |-> 0, processed |-> <<>>,
                   dropped |-> {},
                   threads |-> [consumer |-> [pc |-> "loop", events |-> <<>>],
                                main |-> [pc |-> "out", events |-> <<>>]]]
    /\ SaveIdle
    /\ TrimIdle
    /\ ShellIdle
    /\ ReviewIdle
    /\ ProcIdle
    /\ PathIdle
    /\ QueueIdle
    /\ AddersIdle
    /\ RolesIdle
    /\ OrchIdle
    /\ MatchIdle
    /\ PatternIdle
    /\ GateIdle
    /\ ExecIdle

\* The gate publishes the next event of a tool call.
ObservedPublish ==
    /\ observer.published < 2 * MaxObserved
    /\ observer' = [observer EXCEPT
          !.published = @ + 1,
          !.queue = Append(@, observer.published + 1)]
    /\ UNCHANGED outside_observer

\* The main thread enters _flush_tool_events.
FlushCalled ==
    /\ observer.threads["main"].pc = "out"
    /\ observer' = [observer EXCEPT !.threads["main"].pc = "loop"]
    /\ UNCHANGED outside_observer

\* while time.time() < deadline: the deadline has passed.
FlushTimesOut ==
    /\ observer.threads["main"].pc = "loop"
    /\ observer' = [observer EXCEPT !.threads["main"].pc = "out"]
    /\ UNCHANGED outside_observer

\* events = drain_tool_events() is called.
ObserverDrains(t) ==
    /\ observer.threads[t].pc = "loop"
    /\ observer' = [observer EXCEPT !.threads[t] =
                                      [pc |-> "draining", events |-> <<>>]]
    /\ UNCHANGED outside_observer

\* One pass of the drain's loop.  When it returns no events the consumer
\* sleeps and starts over and the main thread goes to its second drain.
ObserverDrainPass(t) ==
    /\ observer.threads[t].pc = "draining"
    /\ LET r == drain_pass(DrainAll(observer.threads[t].events),
                           observer.queue)
           after == IF r.drainer.pc # "returned" THEN "draining"
                    ELSE IF r.drainer.events # <<>> THEN "process"
                    ELSE IF t = "main" THEN "draining again"
                    ELSE "loop"
       IN  observer' = [observer EXCEPT
               !.queue = r.queue,
               !.threads[t] = [pc |-> after, events |-> r.drainer.events]]
    /\ UNCHANGED outside_observer

\* if not drain_tool_events(): break.  The events this drain returns are
\* bound to no name.
FlushDrainsAgain ==
    /\ observer.threads["main"].pc = "draining again"
    /\ LET r == drain_pass(DrainAll(observer.threads["main"].events),
                           observer.queue)
       IN  IF r.drainer.pc # "returned"
           THEN observer' = [observer EXCEPT
                    !.queue = r.queue,
                    !.threads["main"].events = r.drainer.events]
           ELSE observer' = [observer EXCEPT
                    !.dropped = @ \cup Range(r.drainer.events),
                    !.threads["main"] =
                        [pc |-> IF r.drainer.events = <<>>
                                THEN "out" ELSE "loop",
                         events |-> <<>>]]
    /\ UNCHANGED outside_observer

\* self._process_tool_event(event) for the next event of the list.
ProcessToolEvent(t) ==
    /\ observer.threads[t].pc = "process"
    /\ LET events == observer.threads[t].events IN
       observer' = [observer EXCEPT
           !.processed = Append(@, Head(events)),
           !.threads[t] = [pc |-> IF Tail(events) = <<>>
                                  THEN "loop" ELSE "process",
                           events |-> Tail(events)]]
    /\ UNCHANGED outside_observer

ObserverNext ==
    \/ ObservedPublish
    \/ FlushCalled
    \/ FlushTimesOut
    \/ \E t \in ObserverThreads : ObserverDrains(t)
    \/ \E t \in ObserverThreads : ObserverDrainPass(t)
    \/ FlushDrainsAgain
    \/ \E t \in ObserverThreads : ProcessToolEvent(t)

ObserverSpec == ObserverInit /\ [][ObserverNext]_vars

\* C40: the observer processes the events in the order they were published,
\* and the tool_finished event of a call after its tool_started event,
\* whatever the interleaving of the consumer thread and the main thread's
\* flush.
C40_ProcessedInPublishedOrder ==
    /\ Increasing(observer.processed)
    /\ \A i \in 1..Len(observer.processed) :
          IsFinished(observer.processed[i]) =>
              \E j \in 1..(i - 1) :
                  observer.processed[j] = StartedOf(observer.processed[i])


\* ------------------------------------------------------------------------
\* ShellTool._run_with_streaming
\* ------------------------------------------------------------------------
MaxLines == 2

Streams == {"stdout", "stderr"}

\* What Popen can raise, by whether "timed out" is in str(e): the text of an
\* OSError holds the error's message and the path of the working directory.
PopenErrors == {[timed_out_in_text |-> b] : b \in BOOLEAN}

\* The outer handler: except Exception as e publishes shell_finished with
\* status error unless "timed out" is in str(e).
handler_events(timed_out_in_text) ==
    IF timed_out_in_text THEN <<>> ELSE <<"shell_finished error">>

\* _run_with_streaming is called: nothing is published yet.
ShellInit ==
    /\ shell_run = [pc |-> "called", events |-> <<>>,
                    reading |-> {}, lines |-> 0, killed |-> FALSE,
                    outcome |-> "none"]
    /\ SaveIdle
    /\ TrimIdle
    /\ ObserverIdle
    /\ ReviewIdle
    /\ ProcIdle
    /\ PathIdle
    /\ QueueIdle
    /\ AddersIdle
    /\ RolesIdle
    /\ OrchIdle
    /\ MatchIdle
    /\ PatternIdle
    /\ GateIdle
    /\ ExecIdle

\* publish_tool_event of shell_started.
ShellStarted ==
    /\ shell_run.pc = "called"
    /\ shell_run' = [shell_run EXCEPT !.pc = "popen",
                                      !.events = Append(@, "shell_started")]
    /\ UNCHANGED outside_shell

\* subprocess.Popen raises: the outer handler runs and raises RuntimeError.
PopenRaises ==
    /\ shell_run.pc = "popen"
    /\ \E e \in PopenErrors :
        shell_run' = [shell_run EXCEPT
            !.pc = "raised",
            !.outcome = "Command execution error",
            !.events = @ \o handler_events(e.timed_out_in_text)]
    /\ UNCHANGED outside_shell

\* Popen returns and the two reader threads are started.
PopenReturns ==
    /\ shell_run.pc = "popen"
    /\ shell_run' = [shell_run EXCEPT !.pc = "waiting", !.reading = Streams]
    /\ UNCHANGED outside_shell

\* read_stream publishes a line of the stream.
ReaderPublishes(st) ==
    /\ st \in shell_run.reading
    /\ shell_run.lines < MaxLines
    /\ shell_run' = [shell_run EXCEPT
          !.lines = @ + 1,
          !.events = Append(@, IF st = "stdout" THEN "shell_output stdout"
                               ELSE "shell_output stderr")]
    /\ UNCHANGED outside_shell

\* The stream ends (every holder of the pipe has closed it) and read_stream
\* returns.
ReaderEnds(st) ==
    /\ st \in shell_run.reading
    /\ shell_run' = [shell_run EXCEPT !.reading = @ \ {st}]
    /\ UNCHANGED outside_shell

\* process.wait returns the return code: the joins, each bounded, then
\* shell_finished; a return code other than 0 raises after the try.
ProcessExits ==
    /\ shell_run.pc = "waiting"
    /\ \E return_code \in {0, 1} :
        shell_run' = [shell_run EXCEPT
            !.pc = IF return_code = 0 THEN "returned" ELSE "raised",
            !.outcome = IF return_code = 0 THEN "output" ELSE "Command failed",
            !.events = Append(@, IF return_code = 0
                                 THEN "shell_finished completed"
                                 ELSE "shell_finished failed")]
    /\ UNCHANGED outside_shell

\* process.wait raises TimeoutExpired: kill, the joins, each bounded,
\* shell_finished with status timeout, and RuntimeError("Command timed out
\* ..."), which the outer handler wraps.
WaitTimesOut ==
    /\ shell_run.pc = "waiting"
    /\ shell_run' = [shell_run EXCEPT
          !.pc = "raised",
          !.killed = TRUE,
          !.outcome = "Command execution error",
          !.events = Append(@, "shell_finished timeout")
                         \o handler_events(TRUE)]
    /\ UNCHANGED outside_shell

ShellNext ==
    \/ ShellStarted
    \/ PopenRaises
    \/ PopenReturns
    \/ \E st \in Streams : ReaderPublishes(st)
    \/ \E st \in Streams : ReaderEnds(st)
    \/ ProcessExits
    \/ WaitTimesOut

ShellSpec == ShellInit /\ [][ShellNext]_vars

ShellFinished ==
    {"shell_finished completed", "shell_finished failed",
     "shell_finished timeout", "shell_finished error"}

\* C34: a command that outlives its timeout is killed and the call ends as a
\* failure without waiting for the readers; every call that has ended has
\* published shell_started first and exactly one shell_finished event after
\* it, on each of the paths completed, failed, timeout and error.
C34_OneShellFinished ==
    /\ shell_run.killed => shell_run.pc = "raised"
    /\ shell_run.pc \in {"returned", "raised"} =>
          /\ shell_run.events[1] = "shell_started"
          /\ Cardinality({i \in 1..Len(shell_run.events) :
                            shell_run.events[i] \in ShellFinished}) = 1
    /\ shell_run.pc \in {"popen", "waiting"} =>
          \A i \in 1..Len(shell_run.events) :
              shell_run.events[i] \notin ShellFinished

====
